---------------------------- MODULE Spec2Model ----------------------------
(***************************************************************************)
(* Model of famhy/stamp.                                                   *)
(*                                                                         *)
(*   - the comparison engine of utils/canvasComparison (compareCanvases),  *)
(*     checked under SpecCompare;                                          *)
(*   - the capture surface of components/StampCanvas.tsx (one StampCanvas  *)
(*     component, its React state, its memoised handlers and its 2-D       *)
(*     context), checked under Spec;                                       *)
(*   - the reconstruction of a contact area from an array of points        *)
(*     (convexHull, createShapeFromPoints, drawContactArea) on its own,    *)
(*     checked under SpecShape;                                            *)
(*   - hasContent and getImageDataStats of utils/canvasComparison on one   *)
(*     buffer, checked under SpecStats;                                    *)
(*   - the contact points handleStart and handleMove make of one input     *)
(*     event, checked under SpecSample;                                    *)
(*   - the page (app/page.tsx: Home) with its two canvases, checked under  *)
(*     SpecPage.                                                           *)
(*                                                                         *)
(* Numbers.  JavaScript numbers that are not integers are kept as exact    *)
(* fractions [num, den] with den > 0.  A tolerance is kept as its          *)
(* numerator over TolDen (the slider moves in steps of 1/TolDen).  The     *)
(* comparisons of the code are evaluated exactly; for the tolerances of    *)
(* Tolerances and buffers of up to 12 pixels the IEEE-754 evaluation of    *)
(* the same expressions gives the same truth values.                       *)
(***************************************************************************)
EXTENDS Integers, Sequences, FiniteSets, TLC

---------------------------------------------------------------------------
(* Bounds of the model *)

\* largest number of pixels (width * height) of a compared buffer
MaxPixels == 2

\* start events handled in one run
MaxBegins == 2

\* contact points accumulated in touchHistory
MaxSamples == 3

\* fills and strokes on the surface
MaxOps == 2

\* readings of the clock (start and move events in auto mode) in one run
MaxClock == 3

\* points passed to convexHull and drawContactArea on their own
MaxPoints == 4

\* touches of one touch event sampled on its own
MaxTouches == 2

---------------------------------------------------------------------------
(* Program constants *)

\* the tolerance slider: step="0.05", i.e. tolerances are multiples of 1/20
TolDen == 20

\* largest value of an 8-bit channel (Math.pow(255, 2), a / 255)
ChannelMax == 255

\* similarity is a percentage
Percent == 100

\* matchingPixels is counted in half pixels: "matchingPixels += 0.5"
HalfDen == 2

\* a pressure is counted in halves: the fallback of a touch is 0.5
PressureDen == 2

\* the page mounts both canvases with width={400} height={400}
CanvasWidth == 400

CanvasHeight == 400

\* drawCircle and drawSquare: size = 30
StampSize == 30

VARIABLES
  imageData1,   \* compareCanvases: first argument
  imageData2,   \* compareCanvases: second argument
  cmpTolerance, \* compareCanvases: third argument (NoTolerance before the call)
  cmpResult,    \* the ComparisonResult returned, or NoResult before the call
  cmpPc,        \* "start" before the call, "done" after it ("idle": no call)
  argPoints,    \* drawContactArea, convexHull: the points passed in
  hullResult,   \* what convexHull(argPoints) returned (<<>> before the call)
  drawResult,   \* what drawContactArea(ctx, argPoints) did (NoResult before the call)
  geoPc,        \* "start" before the calls, "done" after them ("idle": no call)
  shapeResult,  \* what createShapeFromPoints(argPoints) returned (NoShape before the call)
  statsData,    \* hasContent, getImageDataStats: the buffer passed in
  statsResult,  \* what getImageDataStats(statsData) returned (NoResult before the call)
  contentResult, \* [returned |-> what hasContent(statsData) returned] (NoResult before the call)
  argEvent,     \* the input event a handler is given (NoEvent: none)
  sampleResult, \* [newPoints |-> the newPoints made of argEvent] (NoResult before that)
  \* Home: React state
  leftImageData,
  rightImageData,
  comparisonResult,
  selectedShape,
  sliderTolerance, \* the state "tolerance"
  canvases,        \* the two StampCanvas components of the page
  lastPageEvent,   \* history: the last of left stamp, right stamp, Compare ("none" after Reset)
  \* StampCanvas: props and React state, as the queued updates leave them
  shape,         \* the shape prop (the page's selectedShape)
  isDrawing,
  hasContent,
  contactPoints,
  isCapturing,
  touchHistory,
  \* StampCanvas: what the handlers of the last render hold
  hMove,         \* handleMove: isDrawing, isCapturing, shape, contactPoints
  hEnd,          \* handleEnd: isDrawing, shape, touchHistory
  cpDirty,       \* setContactPoints was called since the last render
  pending,       \* a render is scheduled and has not run
  \* the canvas and its 2-D context
  surface,       \* the fills and strokes since the last clearRect
  path,          \* the points of the current path of the freehand line
  \* the environment
  lastStamp,     \* the buffer the last step handed to onStampComplete (NoImage: none)
  emitted,       \* the number of buffers handed to onStampComplete
  now,           \* the number of readings of Date.now() so far
  begins,        \* the number of start events handled
  ignored,       \* the event the last step returned from at its guard ("none": none)
  gesture        \* history: what has happened since the last start event

cmpVars == <<imageData1, imageData2, cmpTolerance, cmpResult, cmpPc>>

geoVars == <<argPoints, hullResult, drawResult, geoPc, shapeResult>>

statsVars == <<statsData, statsResult, contentResult>>

sampleVars == <<argEvent, sampleResult>>

pageVars == <<leftImageData, rightImageData, comparisonResult, selectedShape, sliderTolerance,
              canvases, lastPageEvent>>

\* the variables of the pure functions and of the page
pureVars == <<imageData1, imageData2, cmpTolerance, cmpResult, cmpPc,
              argPoints, hullResult, drawResult, geoPc, shapeResult,
              statsData, statsResult, contentResult, argEvent, sampleResult,
              leftImageData, rightImageData, comparisonResult, selectedShape, sliderTolerance,
              canvases, lastPageEvent>>

canvasVars == <<shape, isDrawing, hasContent, contactPoints, isCapturing, touchHistory,
                hMove, hEnd, cpDirty, pending, surface, path, lastStamp, emitted, now, begins,
                ignored, gesture>>

vars == <<imageData1, imageData2, cmpTolerance, cmpResult, cmpPc,
          argPoints, hullResult, drawResult, geoPc, shapeResult,
          statsData, statsResult, contentResult, argEvent, sampleResult,
          leftImageData, rightImageData, comparisonResult, selectedShape, sliderTolerance,
          canvases, lastPageEvent,
          shape, isDrawing, hasContent, contactPoints, isCapturing, touchHistory,
          hMove, hEnd, cpDirty, pending, surface, path, lastStamp, emitted, now, begins,
          ignored, gesture>>

---------------------------------------------------------------------------
(* Exact fractions *)

Rat(n, d) == [num |-> n, den |-> d]

RatEq(x, y) == x.num * y.den = y.num * x.den

RatLeq(x, y) == x.num * y.den <= y.num * x.den

Max(x, y) == IF x >= y THEN x ELSE y

Abs(x) == IF x >= 0 THEN x ELSE -x

---------------------------------------------------------------------------
(* ImageData: width, height and a flat RGBA byte array of length 4*w*h *)

\* data[i] of the code (0-based) on a TLA+ sequence (1-based)
At(data, i) == data[i + 1]

\* the pixels the compared buffers are filled from
SamplePixels ==
  { [r |-> 0,   g |-> 0,   b |-> 0,   a |-> 0],     \* blank
    [r |-> 255, g |-> 255, b |-> 255, a |-> 0],     \* transparent, RGB set
    [r |-> 0,   g |-> 0,   b |-> 0,   a |-> 255],   \* opaque black (the fill)
    [r |-> 0,   g |-> 0,   b |-> 0,   a |-> 128],   \* half-transparent black
    [r |-> 255, g |-> 255, b |-> 255, a |-> 255] }  \* opaque white

Tolerances == {0, 2, 6, 10, 20}   \* 0, 0.1 (default argument), 0.3 (page default), 0.5, 1

Dims == { d \in (1..MaxPixels) \X (1..MaxPixels) : d[1] * d[2] <= MaxPixels }

Channel(p, k) ==
  CASE k = 0 -> p.r
    [] k = 1 -> p.g
    [] k = 2 -> p.b
    [] k = 3 -> p.a

\* the flat byte array of the pixels f[1], ..., f[n]
DataOf(f, n) == [i \in 1..(4 * n) |-> Channel(f[((i - 1) \div 4) + 1], (i - 1) % 4)]

ImageDatas ==
  UNION { { [width |-> d[1], height |-> d[2], data |-> DataOf(f, d[1] * d[2])] :
              f \in [1..(d[1] * d[2]) -> SamplePixels] } : d \in Dims }

NoResult == [none |-> TRUE]

NoTolerance == "none"

NoImage == [none |-> TRUE]

---------------------------------------------------------------------------
(* compareCanvases *)

\* ColorWithin with the tolerance not doubled ("maxColorDiff = tolerance")
ColorWithin_Single(r1, g1, b1, r2, g2, b2, tolerance) ==
  LET sq == (r1 - r2) * (r1 - r2) + (g1 - g2) * (g1 - g2) + (b1 - b2) * (b1 - b2)
      norm == 3 * ChannelMax * ChannelMax
  IN  sq * TolDen * TolDen <= tolerance * tolerance * norm

\* ColorWithin with "<" for "<="
ColorWithin_Strict(r1, g1, b1, r2, g2, b2, tolerance) ==
  LET sq == (r1 - r2) * (r1 - r2) + (g1 - g2) * (g1 - g2) + (b1 - b2) * (b1 - b2)
      norm == 3 * ChannelMax * ChannelMax
  IN  sq * TolDen * TolDen < (tolerance * 2) * (tolerance * 2) * norm

\* colorDiff <= maxColorDiff, with
\*   colorDiff    = sqrt(dr^2 + dg^2 + db^2) / sqrt(3 * 255^2)
\*   maxColorDiff = tolerance * 2
\* both sides are >= 0, so the comparison is that of the squares
ColorWithin(r1, g1, b1, r2, g2, b2, tolerance) ==
  LET sq == (r1 - r2) * (r1 - r2) + (g1 - g2) * (g1 - g2) + (b1 - b2) * (b1 - b2)
      norm == 3 * ChannelMax * ChannelMax
  IN  sq * TolDen * TolDen <= (tolerance * 2) * (tolerance * 2) * norm

\* the pixel test without "&& alphaDiff <= maxAlphaDiff"
AlphaWithin_Unchecked(a1, a2, tolerance) == TRUE

\* alphaDiff <= maxAlphaDiff, with alphaDiff = |a1 - a2| / 255, maxAlphaDiff = tolerance * 2
AlphaWithin(a1, a2, tolerance) ==
  Abs(a1 - a2) * TolDen <= (tolerance * 2) * ChannelMax

\* PixelMatch with the half match given to the first buffer's content only
\* ("else if (hasContent1)")
PixelMatch_FirstOnly(data1, data2, tolerance, i) ==
  LET a1 == At(data1, i + 3)
      a2 == At(data2, i + 3)
  IN  IF a1 = 0 /\ a2 = 0 THEN HalfDen
      ELSE IF a1 > 0 /\ a2 > 0
           THEN IF ColorWithin(At(data1, i), At(data1, i + 1), At(data1, i + 2),
                               At(data2, i), At(data2, i + 1), At(data2, i + 2), tolerance)
                   /\ AlphaWithin(a1, a2, tolerance)
                THEN HalfDen
                ELSE 0
      ELSE IF a1 > 0 THEN 1
      ELSE 0

\* PixelMatch with a one-sided pixel counted as no match
PixelMatch_NoHalf(data1, data2, tolerance, i) ==
  LET a1 == At(data1, i + 3)
      a2 == At(data2, i + 3)
  IN  IF a1 = 0 /\ a2 = 0 THEN HalfDen
      ELSE IF a1 > 0 /\ a2 > 0
           THEN IF ColorWithin(At(data1, i), At(data1, i + 1), At(data1, i + 2),
                               At(data2, i), At(data2, i + 1), At(data2, i + 2), tolerance)
                   /\ AlphaWithin(a1, a2, tolerance)
                THEN HalfDen
                ELSE 0
      ELSE 0

\* PixelMatch with the two thresholds joined by "||"
PixelMatch_Or(data1, data2, tolerance, i) ==
  LET a1 == At(data1, i + 3)
      a2 == At(data2, i + 3)
  IN  IF a1 = 0 /\ a2 = 0 THEN HalfDen
      ELSE IF a1 > 0 /\ a2 > 0
           THEN IF ColorWithin(At(data1, i), At(data1, i + 1), At(data1, i + 2),
                               At(data2, i), At(data2, i + 1), At(data2, i + 2), tolerance)
                   \/ AlphaWithin(a1, a2, tolerance)
                THEN HalfDen
                ELSE 0
      ELSE 1

\* PixelMatch without the both-transparent case: blank pixels go through the
\* colour comparison like any other pair
PixelMatch_NoBlankCase(data1, data2, tolerance, i) ==
  LET a1 == At(data1, i + 3)
      a2 == At(data2, i + 3)
  IN  IF (a1 > 0) = (a2 > 0)
      THEN IF ColorWithin(At(data1, i), At(data1, i + 1), At(data1, i + 2),
                          At(data2, i), At(data2, i + 1), At(data2, i + 2), tolerance)
              /\ AlphaWithin(a1, a2, tolerance)
           THEN HalfDen
           ELSE 0
      ELSE 1

\* PixelMatch with the half match as an "if" of its own instead of an
\* "else if": a matching pair of visible pixels counts 1.5
PixelMatch_HalfTwice(data1, data2, tolerance, i) ==
  LET a1 == At(data1, i + 3)
      a2 == At(data2, i + 3)
  IN  (IF a1 = 0 /\ a2 = 0 THEN HalfDen
       ELSE IF a1 > 0 /\ a2 > 0
            THEN IF ColorWithin(At(data1, i), At(data1, i + 1), At(data1, i + 2),
                                At(data2, i), At(data2, i + 1), At(data2, i + 2), tolerance)
                    /\ AlphaWithin(a1, a2, tolerance)
                 THEN HalfDen
                 ELSE 0
       ELSE 0)
      + (IF a1 > 0 \/ a2 > 0 THEN 1 ELSE 0)

\* one round of the pixel loop: what the pixel at byte offset i adds to
\* matchingPixels, in units of 1/HalfDen
PixelMatch(data1, data2, tolerance, i) ==
  LET r1 == At(data1, i)
      g1 == At(data1, i + 1)
      b1 == At(data1, i + 2)
      a1 == At(data1, i + 3)
      r2 == At(data2, i)
      g2 == At(data2, i + 1)
      b2 == At(data2, i + 2)
      a2 == At(data2, i + 3)
      hasContent1 == a1 > 0
      hasContent2 == a2 > 0
  IN  IF ~hasContent1 /\ ~hasContent2 THEN HalfDen
      ELSE IF hasContent1 /\ hasContent2
           THEN IF ColorWithin(r1, g1, b1, r2, g2, b2, tolerance)
                   /\ AlphaWithin(a1, a2, tolerance)
                THEN HalfDen
                ELSE 0
      ELSE IF hasContent1 \/ hasContent2 THEN 1
      ELSE 0

\* for (let i = 0; i < data1.length; i += 4): matchingPixels after the rounds i, i+4, ...
RECURSIVE PixelLoop(_, _, _, _)
PixelLoop(data1, data2, tolerance, i) ==
  IF i < Len(data1)
  THEN PixelMatch(data1, data2, tolerance, i) + PixelLoop(data1, data2, tolerance, i + 4)
  ELSE 0

\* compareCanvases without the early return: a dimension mismatch gets
\* isMatch from the threshold like any other result
compareCanvases_MismatchThreshold(id1, id2, tolerance) ==
  IF id1.width # id2.width \/ id1.height # id2.height
  THEN [similarity     |-> Rat(0, 1),
        isMatch        |-> RatLeq(Rat((TolDen - tolerance) * Percent, TolDen), Rat(0, 1)),
        tolerance      |-> tolerance,
        totalPixels    |-> Max(id1.width * id1.height, id2.width * id2.height),
        matchingPixels |-> Rat(0, HalfDen)]
  ELSE LET totalPixels == id1.width * id1.height
           matchingPixels == Rat(PixelLoop(id1.data, id2.data, tolerance, 0), HalfDen)
           similarity == Rat(matchingPixels.num * Percent, matchingPixels.den * totalPixels)
           isMatch == RatLeq(Rat((TolDen - tolerance) * Percent, TolDen), similarity)
       IN  [similarity     |-> similarity,
            isMatch        |-> isMatch,
            tolerance      |-> tolerance,
            totalPixels    |-> totalPixels,
            matchingPixels |-> matchingPixels]

\* compareCanvases with the match threshold tolerance * 100 for (1 - tolerance) * 100
compareCanvases_ThresholdUp(id1, id2, tolerance) ==
  IF id1.width # id2.width \/ id1.height # id2.height
  THEN [similarity     |-> Rat(0, 1),
        isMatch        |-> FALSE,
        tolerance      |-> tolerance,
        totalPixels    |-> Max(id1.width * id1.height, id2.width * id2.height),
        matchingPixels |-> Rat(0, HalfDen)]
  ELSE LET totalPixels == id1.width * id1.height
           matchingPixels == Rat(PixelLoop(id1.data, id2.data, tolerance, 0), HalfDen)
           similarity == Rat(matchingPixels.num * Percent, matchingPixels.den * totalPixels)
           isMatch == RatLeq(Rat(tolerance * Percent, TolDen), similarity)
       IN  [similarity     |-> similarity,
            isMatch        |-> isMatch,
            tolerance      |-> tolerance,
            totalPixels    |-> totalPixels,
            matchingPixels |-> matchingPixels]

\* compareCanvases with ">" for ">=" in the match decision
compareCanvases_StrictMatch(id1, id2, tolerance) ==
  IF id1.width # id2.width \/ id1.height # id2.height
  THEN [similarity     |-> Rat(0, 1),
        isMatch        |-> FALSE,
        tolerance      |-> tolerance,
        totalPixels    |-> Max(id1.width * id1.height, id2.width * id2.height),
        matchingPixels |-> Rat(0, HalfDen)]
  ELSE LET totalPixels == id1.width * id1.height
           matchingPixels == Rat(PixelLoop(id1.data, id2.data, tolerance, 0), HalfDen)
           similarity == Rat(matchingPixels.num * Percent, matchingPixels.den * totalPixels)
           isMatch == ~RatLeq(similarity, Rat((TolDen - tolerance) * Percent, TolDen))
       IN  [similarity     |-> similarity,
            isMatch        |-> isMatch,
            tolerance      |-> tolerance,
            totalPixels    |-> totalPixels,
            matchingPixels |-> matchingPixels]

compareCanvases(id1, id2, tolerance) ==
  IF id1.width # id2.width \/ id1.height # id2.height
  THEN [similarity     |-> Rat(0, 1),
        isMatch        |-> FALSE,
        tolerance      |-> tolerance,
        totalPixels    |-> Max(id1.width * id1.height, id2.width * id2.height),
        matchingPixels |-> Rat(0, HalfDen)]
  ELSE LET totalPixels == id1.width * id1.height
           matchingPixels == Rat(PixelLoop(id1.data, id2.data, tolerance, 0), HalfDen)
           similarity == Rat(matchingPixels.num * Percent, matchingPixels.den * totalPixels)
           isMatch == RatLeq(Rat((TolDen - tolerance) * Percent, TolDen), similarity)
       IN  [similarity     |-> similarity,
            isMatch        |-> isMatch,
            tolerance      |-> tolerance,
            totalPixels    |-> totalPixels,
            matchingPixels |-> matchingPixels]

---------------------------------------------------------------------------
(* StampCanvas: geometry of the contact-area reconstruction *)

\* A contact point is [x, y, pressure, timestamp]; pressure is kept in units
\* of 1/PressureDen.  Coordinates are canvas pixels (the page lays the canvas
\* out at its own size, so scaleX = scaleY = 1 and rect.left/top are taken
\* out of clientX/clientY already).

Front(s) == SubSeq(s, 1, Len(s) - 1)

\* the comparator of the first sort: a.x - b.x || a.y - b.y, negative
XYBefore(a, b) == IF a.x # b.x THEN a.x < b.x ELSE a.y < b.y

\* Array.prototype.sort is stable: x goes behind every element that does
\* not compare greater than it
RECURSIVE InsertXY(_, _)
InsertXY(x, s) ==
  IF s = <<>> THEN <<x>>
  ELSE IF XYBefore(x, s[Len(s)]) THEN Append(InsertXY(x, Front(s)), s[Len(s)])
  ELSE Append(s, x)

RECURSIVE SortXY(_)
SortXY(s) == IF s = <<>> THEN <<>> ELSE InsertXY(s[Len(s)], SortXY(Front(s)))

\* (a - o) x (b - o)
Cross(o, a, b) == (a.x - o.x) * (b.y - o.y) - (a.y - o.y) * (b.x - o.x)

\* PopWhile with "< 0" for "<= 0": points on an edge stay in the chain
RECURSIVE PopWhile_Strict(_, _)
PopWhile_Strict(chain, point) ==
  IF Len(chain) >= 2 /\ Cross(chain[Len(chain) - 1], chain[Len(chain)], point) < 0
  THEN PopWhile_Strict(Front(chain), point)
  ELSE chain

\* while (chain.length >= 2 && cross(...) <= 0) chain.pop()
RECURSIVE PopWhile(_, _)
PopWhile(chain, point) ==
  IF Len(chain) >= 2 /\ Cross(chain[Len(chain) - 1], chain[Len(chain)], point) <= 0
  THEN PopWhile(Front(chain), point)
  ELSE chain

\* the lower hull: for (const point of sorted), from sorted[i] on (1-based)
RECURSIVE LowerFrom(_, _, _)
LowerFrom(sorted, i, lower) ==
  IF i > Len(sorted) THEN lower
  ELSE LowerFrom(sorted, i + 1, Append(PopWhile(lower, sorted[i]), sorted[i]))

\* the upper hull: for (let i = sorted.length - 1; i >= 0; i--)
RECURSIVE UpperFrom(_, _, _)
UpperFrom(sorted, i, upper) ==
  IF i < 1 THEN upper
  ELSE UpperFrom(sorted, i - 1, Append(PopWhile(upper, sorted[i]), sorted[i]))

convexHull(points) ==
  IF Len(points) < 3 THEN points
  ELSE LET sorted == SortXY(points)
           lower == LowerFrom(sorted, 1, <<>>)
           upper == UpperFrom(sorted, Len(sorted), <<>>)
       IN  Front(lower) \o Front(upper)

RECURSIVE SumX(_)
SumX(s) == IF s = <<>> THEN 0 ELSE s[Len(s)].x + SumX(Front(s))

RECURSIVE SumY(_)
SumY(s) == IF s = <<>> THEN 0 ELSE s[Len(s)].y + SumY(Front(s))

\* Math.atan2(dy, dx) lies in (-pi, 0) for dy < 0, is 0 for dy = 0 and
\* dx >= 0, lies in (0, pi) for dy > 0 and is pi for dy = 0 and dx < 0
AngleBand(dx, dy) ==
  IF dy < 0 THEN 0
  ELSE IF dy = 0 /\ dx >= 0 THEN 1
  ELSE IF dy > 0 THEN 2
  ELSE 3

\* atan2(a.y - centerY, a.x - centerX) < atan2(b.y - centerY, b.x - centerX)
\* for center = (sx / n, sy / n): the directions are those of n*a - (sx, sy)
\* and n*b - (sx, sy)
\* a comparator that puts a before b for every pair ("(a, b) => -1")
AngleBefore_Always(a, b, sx, sy, n) == TRUE

AngleBefore(a, b, sx, sy, n) ==
  LET ax == n * a.x - sx
      ay == n * a.y - sy
      bx == n * b.x - sx
      by == n * b.y - sy
  IN  IF AngleBand(ax, ay) # AngleBand(bx, by)
      THEN AngleBand(ax, ay) < AngleBand(bx, by)
      ELSE ax * by - ay * bx > 0

RECURSIVE InsertAngle(_, _, _, _, _)
InsertAngle(x, s, sx, sy, n) ==
  IF s = <<>> THEN <<x>>
  ELSE IF AngleBefore(x, s[Len(s)], sx, sy, n)
       THEN Append(InsertAngle(x, Front(s), sx, sy, n), s[Len(s)])
  ELSE Append(s, x)

RECURSIVE SortAngle(_, _, _, _)
SortAngle(s, sx, sy, n) ==
  IF s = <<>> THEN <<>>
  ELSE InsertAngle(s[Len(s)], SortAngle(Front(s), sx, sy, n), sx, sy, n)

NoShape == [none |-> TRUE]

\* createShapeFromPoints: the centre is kept as (sumX, sumY) over n.
\* hullPoints.sort sorts in place: with fewer than 3 points hullPoints is
\* the array passed in, which is field "array" of the result
createShapeFromPoints(points) ==
  IF Len(points) = 0 THEN NoShape
  ELSE LET hullPoints == convexHull(points)
           n == Len(hullPoints)
           sx == SumX(hullPoints)
           sy == SumY(hullPoints)
           sortedPoints == SortAngle(hullPoints, sx, sy, n)
       IN  [centerX   |-> Rat(sx, n),
            centerY   |-> Rat(sy, n),
            points    |-> sortedPoints,
            allPoints |-> IF Len(points) < 3 THEN sortedPoints ELSE points,
            array     |-> IF Len(points) < 3 THEN sortedPoints ELSE points]

\* the x, y of a contact point
XY(p) == [x |-> p.x, y |-> p.y]

XYs(s) == [i \in 1..Len(s) |-> XY(s[i])]

\* one fill or stroke on the surface: what is drawn (kind), the points that
\* define it, its size (radius or side; 0 where the points say it all) and
\* the alpha of the style, in tenths
DrawOp(kind, pts, size, alpha) == [kind |-> kind, pts |-> pts, size |-> size, alpha |-> alpha]

\* drawContactArea with the circle of one point drawn at full pressure
\* ("6 + 20" for "6 + point.pressure * 20")
drawContactArea_FullPressure(points) ==
  IF Len(points) = 0
  THEN [ops |-> <<>>, beganPath |-> FALSE, array |-> points]
  ELSE LET outline == createShapeFromPoints(points)
           pts == outline.array
       IN  IF Len(pts) = 1
           THEN [ops |-> <<DrawOp("arc", XYs(pts), 6 + 20, 10)>>,
                 beganPath |-> TRUE, array |-> pts]
           ELSE IF Len(pts) = 2
           THEN [ops |-> <<DrawOp("ellipse", XYs(pts), 6, 10)>>,
                 beganPath |-> TRUE, array |-> pts]
           ELSE IF Len(pts) = 3
           THEN [ops |-> <<DrawOp("triangle", XYs(pts), 0, 10)>>,
                 beganPath |-> TRUE, array |-> pts]
           ELSE IF Len(outline.points) < 3
           THEN [ops |-> <<>>, beganPath |-> TRUE, array |-> pts]
           ELSE [ops |-> <<DrawOp("smooth", XYs(outline.points), 0, 10),
                           DrawOp("smooth", XYs(outline.points), 0, 1)>>,
                 beganPath |-> TRUE, array |-> pts]

\* drawContactArea(ctx, points): the fills it adds to the surface, whether it
\* began a new path, and the array passed in as the call leaves it
drawContactArea(points) ==
  IF Len(points) = 0
  THEN [ops |-> <<>>, beganPath |-> FALSE, array |-> points]
  ELSE LET outline == createShapeFromPoints(points)
           pts == outline.array
       IN  IF Len(pts) = 1
           THEN [ops |-> <<DrawOp("arc", XYs(pts), 6 + (pts[1].pressure * 20) \div PressureDen, 10)>>,
                 beganPath |-> TRUE, array |-> pts]
           ELSE IF Len(pts) = 2
           THEN [ops |-> <<DrawOp("ellipse", XYs(pts), 6, 10)>>,
                 beganPath |-> TRUE, array |-> pts]
           ELSE IF Len(pts) = 3
           THEN [ops |-> <<DrawOp("triangle", XYs(pts), 0, 10)>>,
                 beganPath |-> TRUE, array |-> pts]
           ELSE IF Len(outline.points) < 3
           THEN [ops |-> <<>>, beganPath |-> TRUE, array |-> pts]
           ELSE [ops |-> <<DrawOp("smooth", XYs(outline.points), 0, 10),
                           DrawOp("smooth", XYs(outline.points), 0, 1)>>,
                 beganPath |-> TRUE, array |-> pts]

---------------------------------------------------------------------------
(* StampCanvas: the component *)

Shapes == {"auto", "circle", "square", "freehand"}

\* the contact positions of the modelled input events
PointA == [x |-> 100, y |-> 100]

PointB == [x |-> 300, y |-> 200]

\* a Touch: its position and the force it reports, if it reports one
Touch(p, hasForce, force) == [x |-> p.x, y |-> p.y, hasForce |-> hasForce, force |-> force]

\* an input event: a mouse event (clientX, clientY kept as touches[1]) or a
\* touch event with its list e.touches
InputEvents ==
  { [isTouch |-> FALSE, touches |-> <<Touch(PointA, FALSE, 0)>>],
    [isTouch |-> TRUE,  touches |-> <<Touch(PointB, FALSE, 0)>>],
    [isTouch |-> TRUE,  touches |-> <<Touch(PointB, TRUE, 2), Touch(PointA, TRUE, 1)>>] }

\* (touch as any).force || (touch as any).pressure || 0.5
\* (a Touch has no "pressure" property)
TouchPressure(t) == IF t.hasForce /\ t.force # 0 THEN t.force ELSE 1

\* newPoints of handleStart and handleMove in auto mode
NewPoints(e, t) ==
  IF e.isTouch
  THEN [i \in 1..Len(e.touches) |->
          [x |-> e.touches[i].x, y |-> e.touches[i].y,
           pressure |-> TouchPressure(e.touches[i]), timestamp |-> t]]
  ELSE <<[x |-> e.touches[1].x, y |-> e.touches[1].y, pressure |-> PressureDen, timestamp |-> t]>>

\* the x, y of the last touch of the list ("e.touches[e.touches.length - 1]")
FirstXY_Last(e) == [x |-> e.touches[Len(e.touches)].x, y |-> e.touches[Len(e.touches)].y]

\* the x, y the other modes take: e.touches[0] or the mouse position
FirstXY(e) == [x |-> e.touches[1].x, y |-> e.touches[1].y]

\* ctx.getImageData(0, 0, width, height): the fills and strokes on the surface
GetImageData(ops) == [width |-> CanvasWidth, height |-> CanvasHeight, ops |-> ops]

IsPrefix(s, t) == Len(s) <= Len(t) /\ SubSeq(t, 1, Len(s)) = s

\* what the memoised handlers read: handleMove has every value it reads among
\* its dependencies
MoveClosure(drawing, capturing, sh, cp) ==
  [isDrawing |-> drawing, isCapturing |-> capturing, shape |-> sh, contactPoints |-> cp]

\* handleEnd reads touchHistory, which is not among its dependencies
\* [isDrawing, shape, contactPoints, drawContactArea, onStampComplete, width,
\* height]: it is made anew when isDrawing, shape or contactPoints changed
\* (dirty: setContactPoints was called since the last render)
EndClosure(old, dirty, drawing, sh, th) ==
  IF dirty \/ drawing # old.isDrawing \/ sh # old.shape
  THEN [isDrawing |-> drawing, shape |-> sh, touchHistory |-> th]
  ELSE old

\* a render of the component with the state as the handler left it
Rerender(dirty) ==
  /\ hMove' = MoveClosure(isDrawing', isCapturing', shape', contactPoints')
  /\ hEnd' = EndClosure(hEnd, dirty, isDrawing', shape', touchHistory')
  /\ cpDirty' = FALSE
  /\ pending' = FALSE

\* no input event
NoEvent == [none |-> TRUE]

\* hasContent and getImageDataStats are not called
StatsIdle ==
  /\ statsData = NoImage
  /\ statsResult = NoResult
  /\ contentResult = NoResult

\* no input event is sampled on its own
SampleIdle ==
  /\ argEvent = NoEvent
  /\ sampleResult = NoResult

\* the two canvases of the page
Sides == {"left", "right"}

\* the surface of a canvas of the page, reduced to one pixel: transparent
\* black after clearRect, opaque black (fillStyle and strokeStyle are black)
\* once a fill or a stroke has covered it
PagePixel(a) == [width |-> 1, height |-> 1, data |-> <<0, 0, 0, a>>]

PageBlank == PagePixel(0)

PageInked == PagePixel(ChannelMax)

\* a StampCanvas of the page as it is mounted
MountedCanvas ==
  [isDrawing |-> FALSE, hasContent |-> FALSE, contactPoints |-> <<>>,
   isCapturing |-> FALSE, touchHistory |-> <<>>, surface |-> PageBlank]

\* useState(0.3)
DefaultTolerance == 6

\* Home as it is mounted
PageIdle ==
  /\ leftImageData = NoImage
  /\ rightImageData = NoImage
  /\ comparisonResult = NoResult
  /\ selectedShape = "auto"
  /\ sliderTolerance = DefaultTolerance
  /\ canvases = [side \in Sides |-> MountedCanvas]
  /\ lastPageEvent = "none"

\* begun, extended, ended: a start, move, end event was handled with its guard
\* passed; cleared: clearCanvas was called; samples: the contact points of the
\* start event and of the move events (auto mode), as the handlers' arrays hold
\* them; raw: the same contact points in the order of the events' lists;
\* first: the first contact position of the start event
NoGesture ==
  [begun |-> FALSE, extended |-> FALSE, cleared |-> FALSE, ended |-> FALSE,
   samples |-> <<>>, raw |-> <<>>, first |-> <<>>]

Init ==
  /\ imageData1 = NoImage
  /\ imageData2 = NoImage
  /\ cmpTolerance = NoTolerance
  /\ cmpResult = NoResult
  /\ cmpPc = "idle"
  /\ argPoints = <<>>
  /\ hullResult = <<>>
  /\ drawResult = NoResult
  /\ geoPc = "idle"
  /\ shapeResult = NoShape
  /\ StatsIdle
  /\ SampleIdle
  /\ PageIdle
  /\ shape = "auto"
  /\ isDrawing = FALSE
  /\ hasContent = FALSE
  /\ contactPoints = <<>>
  /\ isCapturing = FALSE
  /\ touchHistory = <<>>
  /\ hMove = MoveClosure(FALSE, FALSE, "auto", <<>>)
  /\ hEnd = [isDrawing |-> FALSE, shape |-> "auto", touchHistory |-> <<>>]
  /\ cpDirty = FALSE
  /\ pending = FALSE
  /\ surface = <<>>
  /\ path = <<>>
  /\ lastStamp = NoImage
  /\ emitted = 0
  /\ now = 0
  /\ begins = 0
  /\ ignored = "none"
  /\ gesture = NoGesture

\* clearCanvas without setContactPoints([]) and setTouchHistory([]): the
\* points of the gesture stay accumulated
clearCanvas_KeepPoints ==
  /\ surface' = <<>>
  /\ hasContent' = FALSE
  /\ isCapturing' = FALSE
  /\ gesture' = [gesture EXCEPT !.cleared = TRUE]
  /\ lastStamp' = NoImage
  /\ ignored' = "none"
  /\ UNCHANGED <<shape, isDrawing, contactPoints, touchHistory, path, emitted, now, begins>>
  /\ Rerender(cpDirty)
  /\ UNCHANGED pureVars

\* clearCanvas without setIsCapturing(false): the gesture goes on
clearCanvas_KeepCapturing ==
  /\ surface' = <<>>
  /\ hasContent' = FALSE
  /\ contactPoints' = <<>>
  /\ touchHistory' = <<>>
  /\ gesture' = [gesture EXCEPT !.cleared = TRUE]
  /\ lastStamp' = NoImage
  /\ ignored' = "none"
  /\ UNCHANGED <<shape, isDrawing, isCapturing, path, emitted, now, begins>>
  /\ Rerender(TRUE)
  /\ UNCHANGED pureVars

\* clearCanvas, called by the page's Reset button (a click: React renders
\* before the next event)
clearCanvas ==
  /\ surface' = <<>>
  /\ hasContent' = FALSE
  /\ contactPoints' = <<>>
  /\ touchHistory' = <<>>
  /\ isCapturing' = FALSE
  /\ gesture' = [gesture EXCEPT !.cleared = TRUE]
  /\ lastStamp' = NoImage
  /\ ignored' = "none"
  /\ UNCHANGED <<shape, isDrawing, path, emitted, now, begins>>
  /\ Rerender(TRUE)
  /\ UNCHANGED pureVars

\* handleStart (mousedown, touchstart: React renders before the next event)
handleStart(e) ==
  /\ begins < MaxBegins
  /\ begins' = begins + 1
  /\ isDrawing' = TRUE
  /\ isCapturing' = TRUE
  /\ hasContent' = TRUE
  /\ gesture' = [NoGesture EXCEPT !.begun = TRUE,
                                   !.first = <<FirstXY(e)>>,
                                   !.samples = IF shape = "auto"
                                               THEN drawContactArea(NewPoints(e, now)).array
                                               ELSE <<>>,
                                   !.raw = IF shape = "auto" THEN NewPoints(e, now) ELSE <<>>]
  /\ ignored' = "none"
  /\ IF shape = "auto"
     THEN LET newPoints == NewPoints(e, now)
              drawn == drawContactArea(newPoints)
          IN  /\ now < MaxClock
              /\ now' = now + 1
              /\ Len(touchHistory) + Len(newPoints) <= MaxSamples
              /\ Len(surface) + Len(drawn.ops) <= MaxOps
              /\ contactPoints' = drawn.array
              /\ touchHistory' = touchHistory \o drawn.array
              /\ surface' = surface \o drawn.ops
              /\ path' = IF drawn.beganPath THEN <<>> ELSE path
     ELSE IF shape = "circle"
     THEN /\ Len(surface) < MaxOps
          /\ contactPoints' = <<>>
          /\ surface' = Append(surface, DrawOp("arc", <<FirstXY(e)>>, StampSize, 10))
          /\ path' = <<>>
          /\ UNCHANGED <<touchHistory, now>>
     ELSE IF shape = "square"
     THEN /\ Len(surface) < MaxOps
          /\ contactPoints' = <<>>
          /\ surface' = Append(surface, DrawOp("rect", <<FirstXY(e)>>, StampSize, 10))
          /\ UNCHANGED <<touchHistory, path, now>>
     ELSE /\ contactPoints' = <<>>
          /\ path' = <<FirstXY(e)>>
          /\ UNCHANGED <<touchHistory, surface, now>>
  /\ lastStamp' = NoImage
  /\ UNCHANGED <<shape, emitted>>
  /\ Rerender(TRUE)
  /\ UNCHANGED pureVars

\* handleMove without its guard "if (!isDrawing || !isCapturing) return"
handleMove_NoGuard(e) ==
  /\ IF hMove.shape = "auto"
     THEN LET newPoints == NewPoints(e, now)
              allPoints == hMove.contactPoints \o newPoints
              drawn == drawContactArea(allPoints)
          IN  /\ now < MaxClock
              /\ now' = now + 1
              /\ Len(touchHistory) + Len(newPoints) <= MaxSamples
              /\ contactPoints' = contactPoints \o newPoints
              /\ touchHistory' = touchHistory \o newPoints
              /\ surface' = drawn.ops
              /\ path' = IF drawn.beganPath THEN <<>> ELSE path
              /\ cpDirty' = TRUE
              /\ pending' = TRUE
              /\ gesture' = [gesture EXCEPT !.extended = TRUE,
                                            !.samples = gesture.samples \o newPoints,
                                            !.raw = gesture.raw \o newPoints]
              /\ ignored' = "none"
     ELSE IF hMove.shape = "freehand"
     THEN /\ Len(surface) < MaxOps
          /\ path' = Append(path, FirstXY(e))
          /\ surface' = Append(surface, DrawOp("stroke", path', 2, 10))
          /\ gesture' = [gesture EXCEPT !.extended = TRUE]
          /\ ignored' = "none"
          /\ UNCHANGED <<contactPoints, touchHistory, cpDirty, pending, now>>
     ELSE /\ gesture' = [gesture EXCEPT !.extended = TRUE]
          /\ ignored' = "none"
          /\ UNCHANGED <<contactPoints, touchHistory, surface, path, cpDirty, pending, now>>
  /\ lastStamp' = NoImage
  /\ UNCHANGED <<shape, isDrawing, hasContent, isCapturing, hMove, hEnd, emitted, begins>>
  /\ UNCHANGED pureVars

\* handleMove with "else" for "else if (shape === 'freehand')": every mode but
\* auto strokes a line to the new position
handleMove_ElseStroke(e) ==
  /\ IF ~hMove.isDrawing \/ ~hMove.isCapturing
     THEN /\ ignored' = "move"
          /\ UNCHANGED <<contactPoints, touchHistory, surface, path, cpDirty, pending, gesture, now>>
     ELSE IF hMove.shape = "auto"
     THEN LET newPoints == NewPoints(e, now)
              allPoints == hMove.contactPoints \o newPoints
              drawn == drawContactArea(allPoints)
          IN  /\ now < MaxClock
              /\ now' = now + 1
              /\ Len(touchHistory) + Len(newPoints) <= MaxSamples
              /\ contactPoints' = contactPoints \o newPoints
              /\ touchHistory' = touchHistory \o newPoints
              /\ surface' = drawn.ops
              /\ path' = IF drawn.beganPath THEN <<>> ELSE path
              /\ cpDirty' = TRUE
              /\ pending' = TRUE
              /\ gesture' = [gesture EXCEPT !.extended = TRUE,
                                            !.samples = gesture.samples \o newPoints,
                                            !.raw = gesture.raw \o newPoints]
              /\ ignored' = "none"
     ELSE IF hMove.shape # "auto"
     THEN /\ Len(surface) < MaxOps
          /\ path' = Append(path, FirstXY(e))
          /\ surface' = Append(surface, DrawOp("stroke", path', 2, 10))
          /\ gesture' = [gesture EXCEPT !.extended = TRUE]
          /\ ignored' = "none"
          /\ UNCHANGED <<contactPoints, touchHistory, cpDirty, pending, now>>
     ELSE /\ gesture' = [gesture EXCEPT !.extended = TRUE]
          /\ ignored' = "none"
          /\ UNCHANGED <<contactPoints, touchHistory, surface, path, cpDirty, pending, now>>
  /\ lastStamp' = NoImage
  /\ UNCHANGED <<shape, isDrawing, hasContent, isCapturing, hMove, hEnd, emitted, begins>>
  /\ UNCHANGED pureVars

\* handleMove (mousemove, touchmove: React renders later, see Render)
handleMove(e) ==
  /\ IF ~hMove.isDrawing \/ ~hMove.isCapturing
     THEN /\ ignored' = "move"
          /\ UNCHANGED <<contactPoints, touchHistory, surface, path, cpDirty, pending, gesture, now>>
     ELSE IF hMove.shape = "auto"
     THEN LET newPoints == NewPoints(e, now)
              allPoints == hMove.contactPoints \o newPoints
              drawn == drawContactArea(allPoints)
          IN  /\ now < MaxClock
              /\ now' = now + 1
              /\ Len(touchHistory) + Len(newPoints) <= MaxSamples
              /\ contactPoints' = contactPoints \o newPoints
              /\ touchHistory' = touchHistory \o newPoints
              /\ surface' = drawn.ops
              /\ path' = IF drawn.beganPath THEN <<>> ELSE path
              /\ cpDirty' = TRUE
              /\ pending' = TRUE
              /\ gesture' = [gesture EXCEPT !.extended = TRUE,
                                            !.samples = gesture.samples \o newPoints,
                                            !.raw = gesture.raw \o newPoints]
              /\ ignored' = "none"
     ELSE IF hMove.shape = "freehand"
     THEN /\ Len(surface) < MaxOps
          /\ path' = Append(path, FirstXY(e))
          /\ surface' = Append(surface, DrawOp("stroke", path', 2, 10))
          /\ gesture' = [gesture EXCEPT !.extended = TRUE]
          /\ ignored' = "none"
          /\ UNCHANGED <<contactPoints, touchHistory, cpDirty, pending, now>>
     ELSE /\ gesture' = [gesture EXCEPT !.extended = TRUE]
          /\ ignored' = "none"
          /\ UNCHANGED <<contactPoints, touchHistory, surface, path, cpDirty, pending, now>>
  /\ lastStamp' = NoImage
  /\ UNCHANGED <<shape, isDrawing, hasContent, isCapturing, hMove, hEnd, emitted, begins>>
  /\ UNCHANGED pureVars

\* handleEnd without its guard "if (!isDrawing) return"
handleEnd_NoGuard ==
  /\ UNCHANGED <<shape, hasContent, contactPoints, now, begins>>
  /\ isDrawing' = FALSE
  /\ isCapturing' = FALSE
  /\ IF hEnd.shape = "auto" /\ Len(hEnd.touchHistory) > 0
     THEN LET drawn == drawContactArea(hEnd.touchHistory)
          IN  /\ surface' = drawn.ops
              /\ path' = <<>>
              /\ touchHistory' =
                   IF IsPrefix(hEnd.touchHistory, touchHistory)
                   THEN drawn.array
                          \o SubSeq(touchHistory, Len(drawn.array) + 1, Len(touchHistory))
                   ELSE touchHistory
     ELSE /\ path' = IF hEnd.shape = "freehand" THEN <<>> ELSE path
          /\ UNCHANGED <<touchHistory, surface>>
  /\ lastStamp' = GetImageData(surface')
  /\ emitted' = emitted + 1
  /\ ignored' = "none"
  /\ gesture' = [gesture EXCEPT !.ended = TRUE]
  /\ Rerender(cpDirty)
  /\ UNCHANGED pureVars

\* handleEnd without setIsCapturing(false)
handleEnd_KeepCapturing ==
  /\ UNCHANGED <<shape, hasContent, contactPoints, now, begins>>
  /\ IF ~hEnd.isDrawing
     THEN /\ lastStamp' = NoImage
          /\ ignored' = "end"
          /\ UNCHANGED <<isDrawing, isCapturing, touchHistory, surface, path,
                         emitted, hMove, hEnd, cpDirty, pending, gesture>>
     ELSE /\ isDrawing' = FALSE
          /\ isCapturing' = isCapturing
          /\ IF hEnd.shape = "auto" /\ Len(hEnd.touchHistory) > 0
             THEN LET drawn == drawContactArea(hEnd.touchHistory)
                  IN  /\ surface' = drawn.ops
                      /\ path' = <<>>
                      /\ touchHistory' =
                           IF IsPrefix(hEnd.touchHistory, touchHistory)
                           THEN drawn.array
                                  \o SubSeq(touchHistory, Len(drawn.array) + 1, Len(touchHistory))
                           ELSE touchHistory
             ELSE /\ path' = IF hEnd.shape = "freehand" THEN <<>> ELSE path
                  /\ UNCHANGED <<touchHistory, surface>>
          /\ lastStamp' = GetImageData(surface')
          /\ emitted' = emitted + 1
          /\ ignored' = "none"
          /\ gesture' = [gesture EXCEPT !.ended = TRUE]
          /\ Rerender(cpDirty)
  /\ UNCHANGED pureVars

\* handleEnd without setIsDrawing(false)
handleEnd_KeepDrawing ==
  /\ UNCHANGED <<shape, hasContent, contactPoints, now, begins>>
  /\ IF ~hEnd.isDrawing
     THEN /\ lastStamp' = NoImage
          /\ ignored' = "end"
          /\ UNCHANGED <<isDrawing, isCapturing, touchHistory, surface, path,
                         emitted, hMove, hEnd, cpDirty, pending, gesture>>
     ELSE /\ isDrawing' = isDrawing
          /\ isCapturing' = FALSE
          /\ IF hEnd.shape = "auto" /\ Len(hEnd.touchHistory) > 0
             THEN LET drawn == drawContactArea(hEnd.touchHistory)
                  IN  /\ surface' = drawn.ops
                      /\ path' = <<>>
                      /\ touchHistory' =
                           IF IsPrefix(hEnd.touchHistory, touchHistory)
                           THEN drawn.array
                                  \o SubSeq(touchHistory, Len(drawn.array) + 1, Len(touchHistory))
                           ELSE touchHistory
             ELSE /\ path' = IF hEnd.shape = "freehand" THEN <<>> ELSE path
                  /\ UNCHANGED <<touchHistory, surface>>
          /\ lastStamp' = GetImageData(surface')
          /\ emitted' = emitted + 1
          /\ ignored' = "none"
          /\ gesture' = [gesture EXCEPT !.ended = TRUE]
          /\ Rerender(cpDirty)
  /\ UNCHANGED pureVars

\* handleEnd (mouseup, touchend, touchcancel: React renders before the next
\* event).  drawContactArea sorts an array of one or two points in place: the
\* array is the touchHistory the closure holds
handleEnd ==
  /\ UNCHANGED <<shape, hasContent, contactPoints, now, begins>>
  /\ IF ~hEnd.isDrawing
     THEN /\ lastStamp' = NoImage
          /\ ignored' = "end"
          /\ UNCHANGED <<isDrawing, isCapturing, touchHistory, surface, path,
                         emitted, hMove, hEnd, cpDirty, pending, gesture>>
     ELSE /\ isDrawing' = FALSE
          /\ isCapturing' = FALSE
          /\ IF hEnd.shape = "auto" /\ Len(hEnd.touchHistory) > 0
             THEN LET drawn == drawContactArea(hEnd.touchHistory)
                  IN  /\ surface' = drawn.ops
                      /\ path' = <<>>
                      /\ touchHistory' =
                           IF IsPrefix(hEnd.touchHistory, touchHistory)
                           THEN drawn.array
                                  \o SubSeq(touchHistory, Len(drawn.array) + 1, Len(touchHistory))
                           ELSE touchHistory
             ELSE /\ path' = IF hEnd.shape = "freehand" THEN <<>> ELSE path
                  /\ UNCHANGED <<touchHistory, surface>>
          /\ lastStamp' = GetImageData(surface')
          /\ emitted' = emitted + 1
          /\ ignored' = "none"
          /\ gesture' = [gesture EXCEPT !.ended = TRUE]
          /\ Rerender(cpDirty)
  /\ UNCHANGED pureVars

\* the page's shape selector (a change event: React renders before the next
\* event).  The mode is selected before a gesture begins and stays for the
\* gesture: the selector is not operated while a contact is down
SelectShape(s) ==
  /\ s # shape
  /\ ~isDrawing
  /\ shape' = s
  /\ lastStamp' = NoImage
  /\ ignored' = "none"
  /\ UNCHANGED <<isDrawing, hasContent, contactPoints, isCapturing, touchHistory,
                 surface, path, emitted, now, begins, gesture>>
  /\ Rerender(cpDirty)
  /\ UNCHANGED pureVars

\* the render React schedules for the updates of a move event
Render ==
  /\ pending
  /\ lastStamp' = NoImage
  /\ ignored' = "none"
  /\ UNCHANGED <<shape, isDrawing, hasContent, contactPoints, isCapturing, touchHistory,
                 surface, path, emitted, now, begins, gesture>>
  /\ Rerender(cpDirty)
  /\ UNCHANGED pureVars

Next ==
  \/ clearCanvas
  \/ \E e \in InputEvents : handleStart(e)
  \/ \E e \in InputEvents : handleMove(e)
  \/ handleEnd
  \/ \E s \in Shapes : SelectShape(s)
  \/ Render

Spec == Init /\ [][Next]_vars

---------------------------------------------------------------------------
(* The comparison engine on its own: two buffers, one call *)

InitCompare ==
  /\ imageData1 \in ImageDatas
  /\ imageData2 \in ImageDatas
  /\ cmpTolerance = NoTolerance
  /\ cmpResult = NoResult
  /\ cmpPc = "start"
  /\ argPoints = <<>>
  /\ hullResult = <<>>
  /\ drawResult = NoResult
  /\ geoPc = "idle"
  /\ shapeResult = NoShape
  /\ StatsIdle
  /\ SampleIdle
  /\ PageIdle
  /\ shape = "auto"
  /\ isDrawing = FALSE
  /\ hasContent = FALSE
  /\ contactPoints = <<>>
  /\ isCapturing = FALSE
  /\ touchHistory = <<>>
  /\ hMove = MoveClosure(FALSE, FALSE, "auto", <<>>)
  /\ hEnd = [isDrawing |-> FALSE, shape |-> "auto", touchHistory |-> <<>>]
  /\ cpDirty = FALSE
  /\ pending = FALSE
  /\ surface = <<>>
  /\ path = <<>>
  /\ lastStamp = NoImage
  /\ emitted = 0
  /\ now = 0
  /\ begins = 0
  /\ ignored = "none"
  /\ gesture = NoGesture

Compare ==
  /\ cmpPc = "start"
  /\ \E t \in Tolerances :
       /\ cmpTolerance' = t
       /\ cmpResult' = compareCanvases(imageData1, imageData2, t)
  /\ cmpPc' = "done"
  /\ UNCHANGED <<imageData1, imageData2>>
  /\ UNCHANGED geoVars
  /\ UNCHANGED statsVars
  /\ UNCHANGED sampleVars
  /\ UNCHANGED pageVars
  /\ UNCHANGED canvasVars

NextCompare == Compare

SpecCompare == InitCompare /\ [][NextCompare]_vars

---------------------------------------------------------------------------
(* The reconstruction on its own: one array of points, one call of convexHull
   and one of drawContactArea *)

\* the coordinates the points are taken from
GridCoords == {0, 1, 2}

GridPoints ==
  { [x |-> cx, y |-> cy, pressure |-> PressureDen, timestamp |-> 0] :
      cx \in GridCoords, cy \in GridCoords }

PointArrays == UNION { [1..n -> GridPoints] : n \in 0..MaxPoints }

\* arrays of one point with a pressure of 0 or 0.5
LightArrays ==
  { <<[p EXCEPT !.pressure = q]>> : p \in GridPoints, q \in 0..(PressureDen - 1) }

InitShape ==
  /\ imageData1 = NoImage
  /\ imageData2 = NoImage
  /\ cmpTolerance = NoTolerance
  /\ cmpResult = NoResult
  /\ cmpPc = "idle"
  /\ argPoints \in PointArrays \cup LightArrays
  /\ hullResult = <<>>
  /\ drawResult = NoResult
  /\ geoPc = "start"
  /\ shapeResult = NoShape
  /\ StatsIdle
  /\ SampleIdle
  /\ PageIdle
  /\ shape = "auto"
  /\ isDrawing = FALSE
  /\ hasContent = FALSE
  /\ contactPoints = <<>>
  /\ isCapturing = FALSE
  /\ touchHistory = <<>>
  /\ hMove = MoveClosure(FALSE, FALSE, "auto", <<>>)
  /\ hEnd = [isDrawing |-> FALSE, shape |-> "auto", touchHistory |-> <<>>]
  /\ cpDirty = FALSE
  /\ pending = FALSE
  /\ surface = <<>>
  /\ path = <<>>
  /\ lastStamp = NoImage
  /\ emitted = 0
  /\ now = 0
  /\ begins = 0
  /\ ignored = "none"
  /\ gesture = NoGesture

\* convexHull(points) and drawContactArea(ctx, points) on a blank surface
Reconstruct ==
  /\ geoPc = "start"
  /\ hullResult' = convexHull(argPoints)
  /\ drawResult' = drawContactArea(argPoints)
  /\ shapeResult' = createShapeFromPoints(argPoints)
  /\ geoPc' = "done"
  /\ UNCHANGED argPoints
  /\ UNCHANGED cmpVars
  /\ UNCHANGED statsVars
  /\ UNCHANGED sampleVars
  /\ UNCHANGED pageVars
  /\ UNCHANGED canvasVars

NextShape == Reconstruct

SpecShape == InitShape /\ [][NextShape]_vars

---------------------------------------------------------------------------
(* The variables of the other parts when a part is checked on its own *)

CompareIdle ==
  /\ imageData1 = NoImage
  /\ imageData2 = NoImage
  /\ cmpTolerance = NoTolerance
  /\ cmpResult = NoResult
  /\ cmpPc = "idle"

ShapeIdle ==
  /\ argPoints = <<>>
  /\ hullResult = <<>>
  /\ drawResult = NoResult
  /\ geoPc = "idle"
  /\ shapeResult = NoShape

\* a StampCanvas as it is mounted
ComponentIdle ==
  /\ shape = "auto"
  /\ isDrawing = FALSE
  /\ hasContent = FALSE
  /\ contactPoints = <<>>
  /\ isCapturing = FALSE
  /\ touchHistory = <<>>
  /\ hMove = MoveClosure(FALSE, FALSE, "auto", <<>>)
  /\ hEnd = [isDrawing |-> FALSE, shape |-> "auto", touchHistory |-> <<>>]
  /\ cpDirty = FALSE
  /\ pending = FALSE
  /\ surface = <<>>
  /\ path = <<>>
  /\ lastStamp = NoImage
  /\ emitted = 0
  /\ now = 0
  /\ begins = 0
  /\ ignored = "none"
  /\ gesture = NoGesture

---------------------------------------------------------------------------
(* hasContent and getImageDataStats on their own: one buffer, one call of each *)

\* the loop of hasContent over every byte of the buffer
\* ("for (let i = 0; i < data.length; i++)"): a colour channel counts as content
hasContentLoop_EveryByte(data, i) ==
  \E k \in 0..(Len(data) - 1) : At(data, k) > 0

\* hasContent: the loop "for (let i = 3; i < data.length; i += 4)" from index i on
RECURSIVE hasContentLoop(_, _)
hasContentLoop(data, i) ==
  IF i >= Len(data) THEN FALSE
  ELSE IF At(data, i) > 0 THEN TRUE
  ELSE hasContentLoop(data, i + 4)

\* hasContent(imageData) of utils/canvasComparison
hasContentOf(imageData) == hasContentLoop(imageData.data, 3)

\* the loop of getImageDataStats with "alpha >= 0" for "alpha > 0": every
\* pixel is counted as non-transparent
RECURSIVE StatsLoop_CountAll(_, _, _, _)
StatsLoop_CountAll(data, i, count, total) ==
  IF i >= Len(data) THEN [nonTransparentPixels |-> count, totalAlpha |-> total]
  ELSE StatsLoop_CountAll(data, i + 4, count + 1, total + At(data, i))

\* getImageDataStats: the loop "for (let i = 3; i < data.length; i += 4)" from
\* index i on, with nonTransparentPixels = count and totalAlpha = total so far
RECURSIVE StatsLoop(_, _, _, _)
StatsLoop(data, i, count, total) ==
  IF i >= Len(data) THEN [nonTransparentPixels |-> count, totalAlpha |-> total]
  ELSE LET alpha == At(data, i)
       IN  StatsLoop(data, i + 4, IF alpha > 0 THEN count + 1 ELSE count, total + alpha)

\* getImageDataStats(imageData): averageAlpha is kept as the exact fraction
\* totalAlpha / totalPixels
getImageDataStats(imageData) ==
  LET totalPixels == imageData.width * imageData.height
      sums == StatsLoop(imageData.data, 3, 0, 0)
  IN  [width                |-> imageData.width,
       height               |-> imageData.height,
       totalPixels          |-> totalPixels,
       nonTransparentPixels |-> sums.nonTransparentPixels,
       averageAlpha         |-> Rat(sums.totalAlpha, totalPixels)]

InitStats ==
  /\ CompareIdle
  /\ ShapeIdle
  /\ statsData \in ImageDatas
  /\ statsResult = NoResult
  /\ contentResult = NoResult
  /\ SampleIdle
  /\ PageIdle
  /\ ComponentIdle

\* a call of getImageDataStats(statsData)
CallStats ==
  /\ statsResult = NoResult
  /\ statsResult' = getImageDataStats(statsData)
  /\ UNCHANGED <<statsData, contentResult>>
  /\ UNCHANGED <<cmpVars, geoVars, sampleVars, pageVars, canvasVars>>

\* a call of hasContent(statsData)
CallHasContent ==
  /\ contentResult = NoResult
  /\ contentResult' = [returned |-> hasContentOf(statsData)]
  /\ UNCHANGED <<statsData, statsResult>>
  /\ UNCHANGED <<cmpVars, geoVars, sampleVars, pageVars, canvasVars>>

NextStats ==
  \/ CallStats
  \/ CallHasContent

SpecStats == InitStats /\ [][NextStats]_vars

---------------------------------------------------------------------------
(* The contact points of one input event on their own: what handleStart and
   handleMove make of e.touches or of the mouse position in auto mode *)

\* a Touch at one of the two positions: it reports no force, or a force of
\* 0, 0.5 or 1
SampleTouches ==
  { Touch(p, FALSE, 0) : p \in {PointA, PointB} }
    \cup { Touch(p, TRUE, f) : p \in {PointA, PointB}, f \in 0..PressureDen }

\* a mouse event, or a touch event with 1 to MaxTouches touches
SampleEvents ==
  { [isTouch |-> FALSE, touches |-> <<Touch(p, FALSE, 0)>>] : p \in {PointA, PointB} }
    \cup { [isTouch |-> TRUE, touches |-> ts] :
             ts \in UNION { [1..k -> SampleTouches] : k \in 1..MaxTouches } }

InitSample ==
  /\ CompareIdle
  /\ ShapeIdle
  /\ StatsIdle
  /\ argEvent \in SampleEvents
  /\ sampleResult = NoResult
  /\ PageIdle
  /\ ComponentIdle

\* the newPoints of handleStart and handleMove for the event, with the
\* reading t of Date.now()
MakePoints ==
  /\ sampleResult = NoResult
  /\ \E t \in 0..MaxClock : sampleResult' = [newPoints |-> NewPoints(argEvent, t)]
  /\ UNCHANGED argEvent
  /\ UNCHANGED <<cmpVars, geoVars, statsVars, pageVars, canvasVars>>

NextSample == MakePoints

SpecSample == InitSample /\ [][NextSample]_vars

---------------------------------------------------------------------------
(* The page: Home with its state, its handlers and its two canvases.

   A canvas of the page is a StampCanvas reduced to what the page sees of
   it: its React state and a surface of one pixel, which a fill or a stroke
   turns opaque and clearRect turns transparent.  The pointer goes down at
   PointA and moves to PointB; clock readings are 0.  Every event of the page
   is followed by its render before the next event is handled. *)

\* mousedown on a canvas
PageDown == [isTouch |-> FALSE, touches |-> <<Touch(PointA, FALSE, 0)>>]

\* mousemove on a canvas
PageDrag == [isTouch |-> FALSE, touches |-> <<Touch(PointB, FALSE, 0)>>]

\* the positions of the tolerance slider that are used: 0.3 and 0.5
PageTolerances == {DefaultTolerance, 10}

\* the pixel after the fills ops
Ink(pixel, ops) == IF ops = <<>> THEN pixel ELSE PageInked

\* clearCanvas without setContactPoints([]) and setTouchHistory([])
clearOn_KeepPoints(c) ==
  [c EXCEPT !.surface = PageBlank, !.hasContent = FALSE, !.isCapturing = FALSE]

\* clearCanvas of the canvas c
clearOn(c) ==
  [c EXCEPT !.surface = PageBlank, !.hasContent = FALSE, !.contactPoints = <<>>,
            !.touchHistory = <<>>, !.isCapturing = FALSE]

\* handleStart of the canvas c in mode sh
startOn(c, sh, e) ==
  LET newPoints == NewPoints(e, 0)
      drawn == drawContactArea(newPoints)
  IN  [c EXCEPT !.isDrawing = TRUE,
                !.isCapturing = TRUE,
                !.hasContent = TRUE,
                !.contactPoints = IF sh = "auto" THEN drawn.array ELSE <<>>,
                !.touchHistory = IF sh = "auto" THEN c.touchHistory \o drawn.array
                                 ELSE c.touchHistory,
                !.surface = IF sh = "auto" THEN Ink(c.surface, drawn.ops)
                            ELSE IF sh \in {"circle", "square"} THEN PageInked
                            ELSE c.surface]

\* handleMove of the canvas c in mode sh
moveOn(c, sh, e) ==
  IF ~c.isDrawing \/ ~c.isCapturing THEN c
  ELSE IF sh = "auto"
  THEN LET newPoints == NewPoints(e, 0)
           allPoints == c.contactPoints \o newPoints
       IN  [c EXCEPT !.contactPoints = c.contactPoints \o newPoints,
                     !.touchHistory = c.touchHistory \o newPoints,
                     !.surface = Ink(PageBlank, drawContactArea(allPoints).ops)]
  ELSE IF sh = "freehand"
  THEN [c EXCEPT !.surface = PageInked]
  ELSE c

\* handleEnd of the canvas c in mode sh, for c.isDrawing: the canvas it leaves
\* (the buffer it hands to onStampComplete is the surface of that canvas)
endOn(c, sh) ==
  IF sh = "auto" /\ Len(c.touchHistory) > 0
  THEN LET drawn == drawContactArea(c.touchHistory)
       IN  [c EXCEPT !.isDrawing = FALSE,
                     !.isCapturing = FALSE,
                     !.touchHistory = drawn.array,
                     !.surface = Ink(PageBlank, drawn.ops)]
  ELSE [c EXCEPT !.isDrawing = FALSE, !.isCapturing = FALSE]

\* handleRightStampComplete without the comparison
handleRightStampComplete_NoCompare(imageData) ==
  /\ rightImageData' = imageData
  /\ UNCHANGED <<leftImageData, comparisonResult>>

\* handleLeftStampComplete without setComparisonResult(null)
handleLeftStampComplete_KeepResult(imageData) ==
  /\ leftImageData' = imageData
  /\ UNCHANGED <<rightImageData, comparisonResult>>

handleLeftStampComplete(imageData) ==
  /\ leftImageData' = imageData
  /\ comparisonResult' = NoResult
  /\ UNCHANGED rightImageData

handleRightStampComplete(imageData) ==
  /\ rightImageData' = imageData
  /\ IF leftImageData # NoImage
     THEN comparisonResult' = compareCanvases(leftImageData, imageData, sliderTolerance)
     ELSE UNCHANGED comparisonResult
  /\ UNCHANGED leftImageData

\* bothHaveContent of the render: the Compare button is enabled
bothHaveContent ==
  /\ leftImageData # NoImage
  /\ rightImageData # NoImage
  /\ hasContentOf(leftImageData)
  /\ hasContentOf(rightImageData)

InitPage ==
  /\ CompareIdle
  /\ ShapeIdle
  /\ StatsIdle
  /\ SampleIdle
  /\ PageIdle
  /\ ComponentIdle

\* mousedown on the canvas of one side
PageStart(side) ==
  /\ selectedShape = "auto" => Len(canvases[side].touchHistory) < MaxSamples
  /\ canvases' = [canvases EXCEPT ![side] = startOn(canvases[side], selectedShape, PageDown)]
  /\ UNCHANGED <<leftImageData, rightImageData, comparisonResult, selectedShape,
                 sliderTolerance, lastPageEvent>>
  /\ UNCHANGED <<cmpVars, geoVars, statsVars, sampleVars, canvasVars>>

\* mousemove on the canvas of one side
PageMove(side) ==
  /\ selectedShape = "auto" => Len(canvases[side].touchHistory) < MaxSamples
  /\ canvases' = [canvases EXCEPT ![side] = moveOn(canvases[side], selectedShape, PageDrag)]
  /\ UNCHANGED <<leftImageData, rightImageData, comparisonResult, selectedShape,
                 sliderTolerance, lastPageEvent>>
  /\ UNCHANGED <<cmpVars, geoVars, statsVars, sampleVars, canvasVars>>

\* mouseup on the canvas of one side: handleEnd, which calls onStampComplete,
\* the page's handler for the side
PageEnd(side) ==
  /\ IF ~canvases[side].isDrawing
     THEN UNCHANGED <<canvases, leftImageData, rightImageData, comparisonResult, lastPageEvent>>
     ELSE \E ended \in {endOn(canvases[side], selectedShape)} :
              /\ canvases' = [canvases EXCEPT ![side] = ended]
              /\ IF side = "left"
                 THEN handleLeftStampComplete(ended.surface)
                 ELSE handleRightStampComplete(ended.surface)
              /\ lastPageEvent' = side
  /\ UNCHANGED <<selectedShape, sliderTolerance>>
  /\ UNCHANGED <<cmpVars, geoVars, statsVars, sampleVars, canvasVars>>

\* the Reset button
handleReset ==
  /\ canvases' = [side \in Sides |-> clearOn(canvases[side])]
  /\ leftImageData' = NoImage
  /\ rightImageData' = NoImage
  /\ comparisonResult' = NoResult
  /\ lastPageEvent' = "none"
  /\ UNCHANGED <<selectedShape, sliderTolerance>>
  /\ UNCHANGED <<cmpVars, geoVars, statsVars, sampleVars, canvasVars>>

\* the Compare button, which is disabled unless bothHaveContent
handleCompare ==
  /\ bothHaveContent
  /\ IF leftImageData # NoImage /\ rightImageData # NoImage
     THEN comparisonResult' = compareCanvases(leftImageData, rightImageData, sliderTolerance)
     ELSE UNCHANGED comparisonResult
  /\ lastPageEvent' = "compare"
  /\ UNCHANGED <<leftImageData, rightImageData, selectedShape, sliderTolerance, canvases>>
  /\ UNCHANGED <<cmpVars, geoVars, statsVars, sampleVars, canvasVars>>

\* the tolerance slider
setTolerance(t) ==
  /\ t # sliderTolerance
  /\ sliderTolerance' = t
  /\ UNCHANGED <<leftImageData, rightImageData, comparisonResult, selectedShape,
                 canvases, lastPageEvent>>
  /\ UNCHANGED <<cmpVars, geoVars, statsVars, sampleVars, canvasVars>>

\* the shape selector, which is not operated while a contact is down
setSelectedShape(s) ==
  /\ s # selectedShape
  /\ \A side \in Sides : ~canvases[side].isDrawing
  /\ selectedShape' = s
  /\ UNCHANGED <<leftImageData, rightImageData, comparisonResult, sliderTolerance,
                 canvases, lastPageEvent>>
  /\ UNCHANGED <<cmpVars, geoVars, statsVars, sampleVars, canvasVars>>

NextPage ==
  \/ \E side \in Sides : PageStart(side)
  \/ \E side \in Sides : PageMove(side)
  \/ \E side \in Sides : PageEnd(side)
  \/ handleReset
  \/ handleCompare
  \/ \E t \in PageTolerances : setTolerance(t)
  \/ \E s \in Shapes : setSelectedShape(s)

SpecPage == InitPage /\ [][NextPage]_vars

---------------------------------------------------------------------------
(* Properties of the comparison engine (checked under SpecCompare) *)

SameDims == imageData1.width = imageData2.width /\ imageData1.height = imageData2.height

CmpDone == cmpPc = "done"

\* pixel positions of the first buffer, and the channels of a position
Positions == 0..(imageData1.width * imageData1.height - 1)

Alpha1(p) == At(imageData1.data, 4 * p + 3)

Alpha2(p) == At(imageData2.data, 4 * p + 3)

\* dr^2 + dg^2 + db^2 at position p
SqDist(p) ==
  LET dr == At(imageData1.data, 4 * p) - At(imageData2.data, 4 * p)
      dg == At(imageData1.data, 4 * p + 1) - At(imageData2.data, 4 * p + 1)
      db == At(imageData1.data, 4 * p + 2) - At(imageData2.data, 4 * p + 2)
  IN  dr * dr + dg * dg + db * db

\* the thresholds as the specification states them, for tolerance t / TolDen:
\*   dr^2 + dg^2 + db^2 <= 4 * tolerance^2 * 195075  and  |a1 - a2| <= 510 * tolerance
ThresholdsMet(p, t) ==
  /\ SqDist(p) * TolDen * TolDen <= 4 * t * t * 195075
  /\ Abs(Alpha1(p) - Alpha2(p)) * TolDen <= 510 * t

BothBlank == { p \in Positions : Alpha1(p) = 0 /\ Alpha2(p) = 0 }

BothVisible == { p \in Positions : Alpha1(p) > 0 /\ Alpha2(p) > 0 }

OneSided == { p \in Positions : (Alpha1(p) > 0) # (Alpha2(p) > 0) }

\* C1: two buffers whose width or height differ compare, for every tolerance
\* (1 included), to similarity 0, isMatch false, matchingPixels 0, totalPixels
\* the larger of the two areas, and the tolerance passed in.
C1_DimensionMismatch ==
  (CmpDone /\ ~SameDims) =>
      /\ RatEq(cmpResult.similarity, Rat(0, 1))
      /\ cmpResult.isMatch = FALSE
      /\ RatEq(cmpResult.matchingPixels, Rat(0, 1))
      /\ cmpResult.totalPixels = Max(imageData1.width * imageData1.height,
                                     imageData2.width * imageData2.height)
      /\ cmpResult.tolerance = cmpTolerance

\* a mismatch compared at tolerance 1, same area, different shape
C1_Witness ==
  /\ CmpDone
  /\ imageData1.width # imageData2.width
  /\ imageData1.height # imageData2.height
  /\ cmpTolerance = TolDen
  /\ imageData1.data = imageData2.data

\* C2: comparing B with A gives the same result as comparing A with B.
C2_Symmetry ==
  CmpDone => cmpResult = compareCanvases(imageData2, imageData1, cmpTolerance)

\* two different buffers of one size with a one-sided pixel, compared
C2_Witness ==
  /\ CmpDone
  /\ SameDims
  /\ imageData1 # imageData2
  /\ OneSided # {}
  /\ BothVisible # {}

\* C3: a buffer compared with itself has similarity exactly 100 and
\* matchingPixels = totalPixels, hence isMatch, at every tolerance.
C3_Identity ==
  (CmpDone /\ imageData1 = imageData2) =>
      /\ RatEq(cmpResult.similarity, Rat(Percent, 1))
      /\ RatEq(cmpResult.matchingPixels, Rat(cmpResult.totalPixels, 1))
      /\ cmpResult.isMatch

\* a buffer with visible pixels compared with itself at tolerance 0
C3_Witness ==
  /\ CmpDone
  /\ imageData1 = imageData2
  /\ BothVisible # {}
  /\ BothBlank # {}
  /\ cmpTolerance = 0

\* C4: raising the tolerance never turns a match into a non-match:
\* matchingPixels does not decrease and the threshold does not increase.
C4_Monotone ==
  CmpDone =>
    \A t2 \in Tolerances :
      t2 >= cmpTolerance =>
        LET r2 == compareCanvases(imageData1, imageData2, t2)
        IN  /\ RatLeq(cmpResult.matchingPixels, r2.matchingPixels)
            /\ cmpResult.isMatch => r2.isMatch

\* a match that a smaller tolerance, with fewer matching pixels, does not give
C4_Witness ==
  /\ CmpDone
  /\ cmpResult.isMatch
  /\ \E t0 \in Tolerances :
       /\ t0 < cmpTolerance
       /\ ~compareCanvases(imageData1, imageData2, t0).isMatch
       /\ ~RatLeq(cmpResult.matchingPixels,
                  compareCanvases(imageData1, imageData2, t0).matchingPixels)

\* C5: for equal dimensions matchingPixels = #(both blank) + #(both visible
\* and within the thresholds) + 0.5 * #(exactly one visible); a fully visible
\* buffer against a fully blank one of N pixels gives N/2 and similarity 50.
C5_HalfMatch ==
  (CmpDone /\ SameDims) =>
      /\ RatEq(cmpResult.matchingPixels,
               Rat(2 * Cardinality(BothBlank)
                   + 2 * Cardinality({ p \in BothVisible : ThresholdsMet(p, cmpTolerance) })
                   + Cardinality(OneSided), 2))
      /\ OneSided = Positions =>
            /\ RatEq(cmpResult.matchingPixels, Rat(Cardinality(Positions), 2))
            /\ RatEq(cmpResult.similarity, Rat(50, 1))

\* two pixels, the first buffer fully visible and the second fully blank
C5_Witness ==
  /\ CmpDone
  /\ SameDims
  /\ Cardinality(Positions) = 2
  /\ \A p \in Positions : Alpha1(p) > 0 /\ Alpha2(p) = 0

\* C6: a position where both pixels are visible counts as a match iff the
\* colour distance and the alpha distance are both within 2 * tolerance, and
\* counts nothing otherwise.
C6_Thresholds ==
  (CmpDone /\ SameDims) =>
      /\ \A p \in BothVisible :
            PixelMatch(imageData1.data, imageData2.data, cmpTolerance, 4 * p)
              = IF ThresholdsMet(p, cmpTolerance) THEN HalfDen ELSE 0
      /\ (Positions = {0} /\ BothVisible = {0}) =>
            RatEq(cmpResult.matchingPixels,
                  IF ThresholdsMet(0, cmpTolerance) THEN Rat(1, 1) ELSE Rat(0, 1))

\* black against half-transparent black at tolerance 0.1: the colours agree,
\* the alphas are 127/255 apart, the pixel does not match
C6_Witness ==
  /\ CmpDone
  /\ SameDims
  /\ Positions = {0}
  /\ BothVisible = {0}
  /\ SqDist(0) = 0
  /\ Alpha1(0) # Alpha2(0)
  /\ cmpTolerance = 2
  /\ RatEq(cmpResult.matchingPixels, Rat(0, 1))

\* C7: for equal dimensions similarity = 100 * matchingPixels / (width * height),
\* totalPixels = width * height, and isMatch iff similarity >= 100 * (1 - tolerance).
C7_Similarity ==
  (CmpDone /\ SameDims) =>
      /\ cmpResult.totalPixels = imageData1.width * imageData1.height
      /\ RatEq(cmpResult.similarity,
               Rat(100 * cmpResult.matchingPixels.num,
                   cmpResult.matchingPixels.den * imageData1.width * imageData1.height))
      /\ cmpResult.isMatch
           <=> RatLeq(Rat(100 * (TolDen - cmpTolerance), TolDen), cmpResult.similarity)

\* similarity exactly at the threshold: 50 at tolerance 0.5
C7_Witness ==
  /\ CmpDone
  /\ SameDims
  /\ cmpTolerance = 10
  /\ RatEq(cmpResult.similarity, Rat(50, 1))
  /\ cmpResult.isMatch

\* C8: two buffers of one size in which every alpha is 0 compare to
\* similarity 100 and isMatch, whatever their RGB values and the tolerance.
C8_AllBlank ==
  (CmpDone /\ SameDims /\ BothBlank = Positions) =>
      /\ RatEq(cmpResult.similarity, Rat(100, 1))
      /\ cmpResult.isMatch

\* all-blank buffers that differ in RGB at every position, at tolerance 0
C8_Witness ==
  /\ CmpDone
  /\ SameDims
  /\ BothBlank = Positions
  /\ \A p \in Positions : SqDist(p) > 0
  /\ cmpTolerance = 0

\* C9: every result has 0 <= similarity <= 100 and
\* 0 <= matchingPixels <= totalPixels.
C9_Range ==
  CmpDone =>
      /\ RatLeq(Rat(0, 1), cmpResult.similarity)
      /\ RatLeq(cmpResult.similarity, Rat(100, 1))
      /\ RatLeq(Rat(0, 1), cmpResult.matchingPixels)
      /\ RatLeq(cmpResult.matchingPixels, Rat(cmpResult.totalPixels, 1))

\* every position a matching pair of visible pixels: the upper end of the range
C9_Witness ==
  /\ CmpDone
  /\ SameDims
  /\ BothVisible = Positions
  /\ imageData1 # imageData2
  /\ RatEq(cmpResult.matchingPixels, Rat(cmpResult.totalPixels, 1))

\* C31: at every tolerance of 0.5 or more two buffers of one size compare to
\* isMatch, whatever their pixels: every pair of visible pixels is within the
\* thresholds, every one-sided position counts a half, and the similarity is
\* at least 50.
C31_HalfTolerance ==
  (CmpDone /\ SameDims /\ 2 * cmpTolerance >= TolDen) =>
      /\ cmpResult.isMatch
      /\ RatLeq(Rat(50, 1), cmpResult.similarity)
      /\ \A p \in BothVisible : ThresholdsMet(p, cmpTolerance)

\* opaque black against opaque white at every position, at tolerance 0.5
C31_Witness ==
  /\ CmpDone
  /\ SameDims
  /\ cmpTolerance = 10
  /\ BothVisible = Positions
  /\ \A p \in Positions : SqDist(p) = 3 * ChannelMax * ChannelMax
  /\ cmpResult.isMatch

\* the pixels at position p agree in R, G, B and A
SamePixel(p) == SqDist(p) = 0 /\ Alpha1(p) = Alpha2(p)

\* C32: at tolerance 0 two buffers of one size compare to isMatch exactly
\* when at every position both pixels are transparent or both are visible
\* and agree in R, G, B and A.
C32_ExactMatch ==
  (CmpDone /\ SameDims /\ cmpTolerance = 0) =>
      (cmpResult.isMatch
         <=> \A p \in Positions :
                \/ Alpha1(p) = 0 /\ Alpha2(p) = 0
                \/ SamePixel(p) /\ Alpha1(p) > 0)

\* a match at tolerance 0 of two buffers that differ: a visible pixel that
\* agrees and a transparent one whose colour channels differ
C32_Witness ==
  /\ CmpDone
  /\ SameDims
  /\ cmpTolerance = 0
  /\ cmpResult.isMatch
  /\ BothVisible # {}
  /\ \E p \in BothBlank : SqDist(p) > 0

---------------------------------------------------------------------------
(* Properties of the capture surface (checked under Spec) *)

\* the last step handed a buffer to onStampComplete
Emitted == lastStamp # NoImage

\* C10: a clearCanvas() during a gesture followed by the end event, with no
\* new start in between, emits a buffer of the configured width x height in
\* which every pixel is transparent (nothing is drawn on it), in every mode.
C10_CancelledGesture ==
  (Emitted /\ gesture.cleared) =>
      /\ lastStamp.width = CanvasWidth
      /\ lastStamp.height = CanvasHeight
      /\ lastStamp.ops = <<>>

\* an auto-mode gesture with a start and a move, then cleared, then ended
C10_Witness ==
  /\ Emitted
  /\ gesture.begun
  /\ gesture.extended
  /\ gesture.cleared
  /\ gesture.ended
  /\ shape = "auto"

\* the reconstruction of the contact points of the gesture's start and move events
Reconstruction == drawContactArea(gesture.samples).ops

\* C11: in auto mode the buffer emitted at the end of a gesture is the
\* reconstruction of exactly the contact points of that gesture's start and
\* move events; points of an earlier, ended gesture do not contribute to it.
C11_SessionReset ==
  (Emitted /\ shape = "auto" /\ ~gesture.cleared) => lastStamp.ops = Reconstruction

\* the shapes painted on a surface: fills of one shape at one place cover the
\* same pixels however often they are repeated
Painted(ops) == { ops[i] : i \in 1..Len(ops) }

\* the shape a circle or square gesture draws at its first contact position
FixedShape ==
  DrawOp(IF shape = "circle" THEN "arc" ELSE "rect", gesture.first, StampSize, 10)

\* C12: in circle or square mode the buffer emitted at the end of a gesture
\* holds exactly the one shape drawn at that gesture's start, whatever
\* gestures the surface has seen before.
C12_SingleShape ==
  (Emitted /\ shape \in {"circle", "square"} /\ ~gesture.cleared) =>
      Painted(lastStamp.ops) = {FixedShape}

\* C13: after clearCanvas(), called in any state, and until the next start
\* event, the surface is blank, contactPoints and touchHistory are empty and
\* no capture is active: move events change none of this.
C13_Clear ==
  gesture.cleared =>
      /\ surface = <<>>
      /\ contactPoints = <<>>
      /\ touchHistory = <<>>
      /\ ~isCapturing

\* a gesture with a start and a move, cleared, and a move event ignored after it
C13_Witness ==
  /\ gesture.cleared
  /\ gesture.begun
  /\ gesture.extended
  /\ ~gesture.ended
  /\ isDrawing
  /\ ignored = "move"

\* a step of a move event
MoveEvent == \E e \in InputEvents : handleMove(e)

\* C14: a move event that arrives while no gesture is active leaves the
\* surface, the accumulated points and the flags as they are.
C14_IdleMove ==
  [][(~isDrawing /\ MoveEvent) =>
        UNCHANGED <<surface, contactPoints, touchHistory, isDrawing, isCapturing, hasContent>>]_vars

\* a move event ignored after the end of a gesture that has drawn
C14_Witness ==
  /\ ignored = "move"
  /\ ~isDrawing
  /\ gesture.ended
  /\ ~gesture.cleared
  /\ surface # <<>>

\* C15: an end event that arrives while no gesture is active changes no
\* state, leaves the surface as it is and hands no buffer to onStampComplete.
C15_IdleEnd ==
  [][(~isDrawing /\ handleEnd) =>
        /\ UNCHANGED <<shape, isDrawing, hasContent, contactPoints, isCapturing, touchHistory,
                       hMove, hEnd, cpDirty, pending, surface, path, emitted, now, begins, gesture>>
        /\ lastStamp' = NoImage]_vars

\* two start events (two fingers), the first end event emits, the second is ignored
C15_Witness ==
  /\ ignored = "end"
  /\ ~isDrawing
  /\ begins = 2
  /\ emitted = 1
  /\ surface # <<>>

\* C16: a buffer is handed to onStampComplete only by an end event handled
\* while a gesture is active, one per such event, and by no other step; the
\* number of buffers never exceeds the number of start events.
C16_OnePerGesture ==
  /\ [](emitted <= begins)
  /\ [][/\ (emitted' # emitted \/ lastStamp' # NoImage) =>
              (isDrawing /\ handleEnd /\ emitted' = emitted + 1 /\ lastStamp' # NoImage)
        /\ (isDrawing /\ handleEnd) =>
              (emitted' = emitted + 1 /\ lastStamp' # NoImage /\ ~isDrawing')]_vars

\* two gestures completed: the second buffer has just been emitted
C16_Witness ==
  /\ Emitted
  /\ emitted = 2
  /\ begins = 2

\* C17: in circle and square mode a move event during a gesture leaves the
\* surface and the accumulated points as they are.
C17_FixedIgnoresMove ==
  [][(isDrawing /\ isCapturing /\ shape \in {"circle", "square"} /\ MoveEvent) =>
        UNCHANGED <<surface, path, contactPoints, touchHistory>>]_vars

\* a circle gesture with its circle drawn and a move event handled
C17_Witness ==
  /\ shape = "circle"
  /\ isDrawing
  /\ isCapturing
  /\ gesture.extended
  /\ surface = <<FixedShape>>

\* C18: in auto mode, after every move event of a gesture the surface shows
\* the reconstruction of all contact points accumulated since the gesture's
\* start, however the move events and the renders of the component interleave.
C18_FullRedraw ==
  (isDrawing /\ isCapturing /\ shape = "auto" /\ gesture.extended /\ ~gesture.cleared) =>
      surface = Reconstruction

---------------------------------------------------------------------------
(* Properties of the reconstruction (checked under SpecShape) *)

GeoDone == geoPc = "done"

\* the index after i around a polygon of n vertices
Succ(i, n) == (i % n) + 1

InputPoints == { argPoints[i] : i \in 1..Len(argPoints) }

\* every point of the input lies on one line (or all coincide)
AllCollinear ==
  \A a \in InputPoints, b \in InputPoints, c \in InputPoints : Cross(a, b, c) = 0

\* p lies on the closed segment from a to b
OnSegment(a, b, p) ==
  /\ Cross(a, b, p) = 0
  /\ (a.x <= p.x /\ p.x <= b.x) \/ (b.x <= p.x /\ p.x <= a.x)
  /\ (a.y <= p.y /\ p.y <= b.y) \/ (b.y <= p.y /\ p.y <= a.y)

\* the closed segments a-b and c-d have a point in common
SegmentsMeet(a, b, c, d) ==
  \/ /\ Cross(a, b, c) * Cross(a, b, d) < 0
     /\ Cross(c, d, a) * Cross(c, d, b) < 0
  \/ OnSegment(a, b, c)
  \/ OnSegment(a, b, d)
  \/ OnSegment(c, d, a)
  \/ OnSegment(c, d, b)

\* every output point is one of the input points
HullOfInput == \A i \in 1..Len(hullResult) : hullResult[i] \in InputPoints

\* no input point lies strictly on the outer side of an edge of the output
NoneOutside ==
  \A p \in InputPoints : \A i \in 1..Len(hullResult) :
      Cross(hullResult[i], hullResult[Succ(i, Len(hullResult))], p) >= 0

\* the output is a polygon: three or more vertices, no two of them equal, every
\* three consecutive ones a strict counter-clockwise turn (cross product > 0)
\* and no two edges that are not neighbours with a point in common
SimplePolygon ==
  LET n == Len(hullResult)
  IN  /\ n >= 3
      /\ \A i \in 1..n : \A j \in 1..n : i # j => XY(hullResult[i]) # XY(hullResult[j])
      /\ \A i \in 1..n :
            Cross(hullResult[i], hullResult[Succ(i, n)], hullResult[Succ(Succ(i, n), n)]) > 0
      /\ \A i \in 1..n : \A j \in 1..n :
            (j # i /\ j # Succ(i, n) /\ i # Succ(j, n)) =>
               ~SegmentsMeet(hullResult[i], hullResult[Succ(i, n)],
                             hullResult[j], hullResult[Succ(j, n)])

\* C19 as stated: for every input of three or more points, duplicates and
\* collinear points included, every output point of convexHull is an input
\* point, no input point lies strictly outside the output, and the output is
\* a simple polygon with a strict counter-clockwise turn at every vertex.
C19_HullAsStated ==
  (GeoDone /\ Len(argPoints) >= 3) => (HullOfInput /\ NoneOutside /\ SimplePolygon)

\* C19, amended: the same for every input of three or more points that do not
\* all lie on one line; for an input on one line the output is the two ends
\* of the input in the order of the sort (twice the one point when all
\* coincide): no polygon.
C19_Hull ==
  (GeoDone /\ Len(argPoints) >= 3) =>
      /\ HullOfInput
      /\ NoneOutside
      /\ IF AllCollinear
         THEN LET sorted == SortXY(argPoints)
              IN  XYs(hullResult) = <<XY(sorted[1]), XY(sorted[Len(sorted)])>>
         ELSE SimplePolygon

\* four points, one of them on an edge of the triangle of the other three
C19_Witness ==
  /\ GeoDone
  /\ Len(argPoints) = 4
  /\ ~AllCollinear
  /\ Len(hullResult) = 3
  /\ \E p \in InputPoints :
        /\ \A i \in 1..3 : XY(hullResult[i]) # XY(p)
        /\ \E i \in 1..3 : OnSegment(hullResult[i], hullResult[Succ(i, 3)], p)

\* a is not behind b in the order of the angles around the centre (sx/n, sy/n)
AngleOrdered(pts, sx, sy, n) ==
  \A i \in 1..(Len(pts) - 1) : ~AngleBefore(pts[i + 1], pts[i], sx, sy, n)

\* C20: for every array of four or more points drawContactArea fills a closed
\* smoothed outline through the hull points in the order of their angles, and
\* then fills it again at alpha 0.1; no array of fewer points gets the second fill.
C20_SmoothPolygon ==
  GeoDone =>
      IF Len(argPoints) >= 4
      THEN /\ Len(drawResult.ops) = 2
           /\ drawResult.ops[1].kind = "smooth"
           /\ drawResult.ops[1].alpha = 10
           /\ drawResult.ops[2] = [drawResult.ops[1] EXCEPT !.alpha = 1]
           /\ Len(drawResult.ops[1].pts) >= 3
           /\ { drawResult.ops[1].pts[i] : i \in 1..Len(drawResult.ops[1].pts) }
                = { XY(hullResult[i]) : i \in 1..Len(hullResult) }
           /\ AngleOrdered(drawResult.ops[1].pts, SumX(hullResult), SumY(hullResult),
                           Len(hullResult))
      ELSE \A i \in 1..Len(drawResult.ops) : drawResult.ops[i].alpha = 10

\* a one-point array with pressure 0: a circle of radius 6 at the point
C22_Witness ==
  /\ GeoDone
  /\ Len(argPoints) = 1
  /\ argPoints[1].pressure = 0
  /\ drawResult.ops = <<DrawOp("arc", <<XY(argPoints[1])>>, 6, 10)>>

\* C22: for an array of exactly one point with pressure p, drawContactArea
\* fills one circle centred at the point with radius 6 + 20 * p and nothing
\* else; the radius lies between 6 (p = 0) and 26 (p = 1).
C22_SinglePoint ==
  (GeoDone /\ Len(argPoints) = 1) =>
      \E radius \in 6..26 :
         /\ PressureDen * radius = PressureDen * 6 + 20 * argPoints[1].pressure
         /\ drawResult.ops = <<DrawOp("arc", <<XY(argPoints[1])>>, radius, 10)>>

\* the sort of createShapeFromPoints applied to an array again, around the
\* centroid of the hull
SortedAgain(pts) == SortAngle(pts, SumX(hullResult), SumY(hullResult), Len(hullResult))

\* C23: sorting the points that createShapeFromPoints has sorted by their
\* angle around the centroid once more, around the same centroid, gives the
\* same sequence, and in that sequence no point has a smaller angle than the
\* point before it.
C23_SortIdempotent ==
  (GeoDone /\ Len(argPoints) >= 1) =>
      /\ SortedAgain(shapeResult.points) = shapeResult.points
      /\ AngleOrdered(shapeResult.points, SumX(hullResult), SumY(hullResult), Len(hullResult))

\* a hull of four points that the sort has put in another order
C23_Witness ==
  /\ GeoDone
  /\ Len(hullResult) = 4
  /\ shapeResult.points # hullResult
  /\ SortedAgain(shapeResult.points) = shapeResult.points

\* C30: drawContactArea leaves the array it is given as it was: the same
\* points in the same order, for an array of any length.
C30_ArrayUntouched ==
  GeoDone => drawResult.array = argPoints

---------------------------------------------------------------------------
(* Further properties of the capture surface (checked under Spec) *)

\* C24: in auto mode the contact points of a start or move event are stored
\* one per entry of the event's list and in the list's order, each with the
\* one clock reading of the event: during a gesture contactPoints is the
\* concatenation of the lists of its events and touchHistory ends with it.
C24_EventOrder ==
  (isDrawing /\ isCapturing /\ shape = "auto") =>
      /\ contactPoints = gesture.raw
      /\ Len(touchHistory) >= Len(gesture.raw)
      /\ SubSeq(touchHistory, Len(touchHistory) - Len(gesture.raw) + 1, Len(touchHistory))
           = gesture.raw

\* the position of the first entry of the event's list
FirstContact(e) == [x |-> e.touches[1].x, y |-> e.touches[1].y]

\* C29: in freehand mode a start event begins a path at its first contact
\* position and strokes nothing; a move event handled during the gesture adds
\* the segment to its first contact position and strokes the path; a move
\* event before a start, after the end or after a clearCanvas() adds nothing,
\* and the end event closes the path.
C29_Freehand ==
  [][/\ \A e \in InputEvents :
           (shape = "freehand" /\ handleStart(e)) =>
               (path' = <<FirstContact(e)>> /\ surface' = surface)
     /\ \A e \in InputEvents :
           (shape = "freehand" /\ handleMove(e)) =>
               IF isDrawing /\ isCapturing
               THEN /\ path' = Append(path, FirstContact(e))
                    /\ surface' = Append(surface, DrawOp("stroke", path', 2, 10))
               ELSE UNCHANGED <<path, surface>>
     /\ (shape = "freehand" /\ isDrawing /\ handleEnd) =>
           (path' = <<>> /\ surface' = surface)]_vars

\* a freehand gesture with two move events: the line through the three positions
C29_Witness ==
  /\ shape = "freehand"
  /\ isDrawing
  /\ isCapturing
  /\ Len(path) = 3
  /\ <<path[1]>> = gesture.first
  /\ surface = <<DrawOp("stroke", SubSeq(path, 1, 2), 2, 10), DrawOp("stroke", path, 2, 10)>>

\* the capture was cancelled: a gesture is on and nothing is captured
Cancelled == isDrawing /\ ~isCapturing

\* C35: isCapturing implies isDrawing in every state; only a clearCanvas()
\* during a gesture leads to isDrawing without isCapturing; in that state a
\* move event changes nothing of the surface and the accumulated points, and
\* the end event sets both flags false and hands a buffer to onStampComplete.
C35_Flags ==
  /\ [](isCapturing => isDrawing)
  /\ [][/\ (~Cancelled /\ Cancelled') => (isDrawing /\ isCapturing /\ clearCanvas)
        /\ (Cancelled /\ MoveEvent) =>
              UNCHANGED <<surface, path, contactPoints, touchHistory, isDrawing,
                          isCapturing, hasContent, emitted>>
        /\ (Cancelled /\ handleEnd) =>
              (~isDrawing' /\ ~isCapturing' /\ emitted' = emitted + 1
                 /\ lastStamp' # NoImage)]_vars

\* a circle gesture cancelled by clearCanvas() and then ended: idle again,
\* the buffer handed over
C35_Witness ==
  /\ Emitted
  /\ gesture.cleared
  /\ gesture.ended
  /\ ~gesture.extended
  /\ shape = "circle"
  /\ ~isDrawing
  /\ ~isCapturing

---------------------------------------------------------------------------
(* Properties of hasContent and getImageDataStats (checked under SpecStats) *)

\* the pixels of the buffer
StatsPositions == 1..(statsData.width * statsData.height)

\* the alpha byte of pixel k
AlphaOf(k) == statsData.data[4 * k]

RECURSIVE SumAlpha(_)
SumAlpha(n) == IF n = 0 THEN 0 ELSE SumAlpha(n - 1) + AlphaOf(n)

\* C25: hasContent(buffer) is true exactly when some pixel of the buffer has
\* alpha > 0, whatever the colour channels hold.
C25_HasContent ==
  contentResult # NoResult =>
      (contentResult.returned <=> \E k \in StatsPositions : AlphaOf(k) > 0)

\* a buffer whose pixels are all transparent and whose colour channels are
\* set: no content
C25_Witness ==
  /\ contentResult = [returned |-> FALSE]
  /\ \A k \in StatsPositions : AlphaOf(k) = 0
  /\ \E i \in 1..Len(statsData.data) : statsData.data[i] > 0

\* C26: getImageDataStats(buffer) returns totalPixels = width * height,
\* nonTransparentPixels = the number of pixels with alpha > 0 and
\* averageAlpha = the sum of the alpha bytes over totalPixels, so that
\* nonTransparentPixels <= totalPixels and
\* averageAlpha * totalPixels <= 255 * nonTransparentPixels.
C26_Stats ==
  statsResult # NoResult =>
      /\ statsResult.width = statsData.width
      /\ statsResult.height = statsData.height
      /\ statsResult.totalPixels = statsData.width * statsData.height
      /\ statsResult.nonTransparentPixels
           = Cardinality({ k \in StatsPositions : AlphaOf(k) > 0 })
      /\ RatEq(statsResult.averageAlpha,
               Rat(SumAlpha(statsResult.totalPixels), statsResult.totalPixels))
      /\ statsResult.nonTransparentPixels <= statsResult.totalPixels
      /\ RatLeq(Rat(statsResult.averageAlpha.num * statsResult.totalPixels,
                    statsResult.averageAlpha.den),
                Rat(ChannelMax * statsResult.nonTransparentPixels, 1))

\* a buffer of two pixels, one transparent and one half-transparent
C26_Witness ==
  /\ statsResult # NoResult
  /\ statsResult.totalPixels = 2
  /\ statsResult.nonTransparentPixels = 1
  /\ RatEq(statsResult.averageAlpha, Rat(64, 1))

---------------------------------------------------------------------------
(* Properties of the contact points of an event (checked under SpecSample) *)

\* C21: the contact point made of a touch that reports a force f carries the
\* pressure f, for every f from 0 to 1; a touch that reports no force gets
\* 0.5, and the point of a mouse event gets 1.
C21_ReportedPressure ==
  sampleResult # NoResult =>
      \A i \in 1..Len(sampleResult.newPoints) :
         sampleResult.newPoints[i].pressure =
            IF ~argEvent.isTouch THEN PressureDen
            ELSE IF argEvent.touches[i].hasForce THEN argEvent.touches[i].force
            ELSE PressureDen \div 2

---------------------------------------------------------------------------
(* Properties of the page (checked under SpecPage) *)

\* both canvases have handed the page a buffer since the last Reset
BothDelivered == leftImageData # NoImage /\ rightImageData # NoImage

\* the stored result is that of comparing the two stored buffers
ResultOfBuffers ==
  /\ comparisonResult # NoResult
  /\ comparisonResult
       = compareCanvases(leftImageData, rightImageData, comparisonResult.tolerance)

\* C27 as stated: whenever both canvases have delivered a buffer since the
\* last Reset, the result of comparing those two buffers is stored, whichever
\* stamp was completed last.
C27_AnyOrder == BothDelivered => ResultOfBuffers

\* C27: when both canvases have delivered a buffer since the last Reset and
\* the right stamp was the last to complete, the result of comparing the two
\* buffers is stored without Compare being pressed; when the left stamp was
\* the last to complete, no result is stored; after Compare the result of the
\* two buffers is stored.
C27_AutoCompare ==
  BothDelivered =>
      /\ lastPageEvent \in {"right", "compare"} => ResultOfBuffers
      /\ lastPageEvent = "left" => comparisonResult = NoResult

\* a left stamp with content, then a blank right stamp, compared on completion
C27_Witness ==
  /\ BothDelivered
  /\ lastPageEvent = "right"
  /\ leftImageData = PageInked
  /\ rightImageData = PageBlank
  /\ ResultOfBuffers

\* C28: a step of handleReset, taken in any state, leaves no stored left
\* buffer, no stored right buffer and no comparison result, and leaves both
\* canvases with a transparent surface, no contact points and no capture.
C28_Reset ==
  [][handleReset =>
        /\ leftImageData' = NoImage
        /\ rightImageData' = NoImage
        /\ comparisonResult' = NoResult
        /\ \A side \in Sides :
              /\ canvases'[side].surface = PageBlank
              /\ canvases'[side].contactPoints = <<>>
              /\ canvases'[side].touchHistory = <<>>
              /\ ~canvases'[side].isCapturing]_vars

\* Reset pressed while a gesture was in progress on both canvases
C28_Witness ==
  /\ \A side \in Sides :
        /\ canvases[side].isDrawing
        /\ ~canvases[side].isCapturing
        /\ canvases[side].surface = PageBlank
        /\ canvases[side].contactPoints = <<>>
        /\ canvases[side].touchHistory = <<>>
  /\ leftImageData = NoImage
  /\ rightImageData = NoImage
  /\ comparisonResult = NoResult

\* C33: a stored comparison result is the result of comparing the stored
\* left buffer with the stored right buffer at the tolerance the result
\* records; after a left stamp or a Reset, and until the next right stamp or
\* Compare, no result is stored.
C33_ResultCurrent ==
  /\ comparisonResult # NoResult => (BothDelivered /\ ResultOfBuffers)
  /\ lastPageEvent \in {"left", "none"} => comparisonResult = NoResult

\* a result of Compare that is still stored after the slider has moved
C33_Witness ==
  /\ comparisonResult # NoResult
  /\ lastPageEvent = "compare"
  /\ comparisonResult.tolerance # sliderTolerance
  /\ ResultOfBuffers

\* C34: a comparison result is stored only when the stored left buffer and
\* the stored right buffer both have content (hasContent is true of each),
\* whether Compare or the completion of the right stamp produced it.
C34_ContentOnly ==
  comparisonResult # NoResult =>
      /\ BothDelivered
      /\ hasContentOf(leftImageData)
      /\ hasContentOf(rightImageData)

=============================================================================
